---- MODULE Spec2Model ----
(***************************************************************************)
(* A model of the @gibme/cache package: the JSON key/value codec of the   *)
(* abstract Cache class and the three backends built on it, Memory        *)
(* (node-cache), Redis (node-redis) and DB (a SQL table with a sweep      *)
(* timer).  Keys and values are JavaScript values; what the underlying    *)
(* client holds are their JSON texts, modelled as sequences of            *)
(* one-character strings.                                                  *)
(***************************************************************************)
EXTENDS Integers, Sequences, FiniteSets, TLC

(***************************************************************************)
(* JavaScript values                                                       *)
(***************************************************************************)
Undefined == [t |-> "undefined"]
JNull == [t |-> "null"]
JBool(b) == [t |-> "boolean", v |-> b]
JNum(n) == [t |-> "number", v |-> n]
JStr(s) == [t |-> "string", v |-> s]
\* an object: its own properties <<name, value>> in insertion order
JObj(props) == [t |-> "object", v |-> props]
\* an array, as the sequence of its items, and a Map, as the set of its
\* <<key, value>> entries
JArray(items) == [t |-> "array", v |-> items]
JMap(entries) == [t |-> "map", v |-> entries]

\* JavaScript's ToBoolean of a value
Truthy(x) ==
    CASE x.t = "undefined" -> FALSE
      [] x.t = "null" -> FALSE
      [] x.t = "boolean" -> x.v
      [] x.t = "number" -> x.v # 0
      [] x.t = "string" -> Len(x.v) > 0
      [] OTHER -> TRUE

\* assert.deepEqual on the values above: objects compare by their properties,
\* whatever the order they were inserted in
RECURSIVE DeepEqual(_, _)
DeepEqual(x, y) ==
    IF x.t # y.t THEN FALSE
    ELSE IF x.t \in {"undefined", "null"} THEN TRUE
    ELSE IF x.t # "object" THEN x.v = y.v
    ELSE /\ Len(x.v) = Len(y.v)
         /\ \A i \in 1..Len(x.v) :
               \E j \in 1..Len(y.v) :
                   /\ x.v[i][1] = y.v[j][1]
                   /\ DeepEqual(x.v[i][2], y.v[j][2])

(***************************************************************************)
(* The codec: JSON.stringify and JSON.parse                                *)
(***************************************************************************)
Digits == <<"0", "1", "2", "3", "4", "5", "6", "7", "8", "9">>
Quote == "\""

RECURSIVE NumText(_)
NumText(n) ==
    IF n < 10 THEN <<Digits[n + 1]>>
    ELSE NumText(n \div 10) \o <<Digits[(n % 10) + 1]>>

RECURSIVE stringify(_)
RECURSIVE PropsText(_, _)
PropsText(props, i) ==
    IF i > Len(props) THEN <<>>
    ELSE (IF i > 1 THEN <<",">> ELSE <<>>)
         \o <<Quote>> \o props[i][1] \o <<Quote, ":">>
         \o stringify(props[i][2])
         \o PropsText(props, i + 1)

stringify(value) ==
    CASE value.t = "null" -> <<"n", "u", "l", "l">>
      [] value.t = "boolean" ->
            IF value.v THEN <<"t", "r", "u", "e">>
            ELSE <<"f", "a", "l", "s", "e">>
      [] value.t = "number" -> NumText(value.v)
      [] value.t = "string" -> <<Quote>> \o value.v \o <<Quote>>
      [] value.t = "object" -> <<"{">> \o PropsText(value.v, 1) \o <<"}">>

IsDigit(c) == \E d \in 1..10 : Digits[d] = c
DigitVal(c) == (CHOOSE d \in 1..10 : Digits[d] = c) - 1

\* the index of the quote closing the string that opens at text[i]
CloseQuote(text, i) ==
    CHOOSE j \in (i + 1)..Len(text) :
        /\ text[j] = Quote
        /\ \A m \in (i + 1)..(j - 1) : text[m] # Quote

\* the index of the last digit of the number that starts at text[i]
LastDigit(text, i) ==
    CHOOSE j \in i..Len(text) :
        /\ \A m \in i..j : IsDigit(text[m])
        /\ (j = Len(text) \/ ~IsDigit(text[j + 1]))

RECURSIVE NumValue(_, _, _)
NumValue(text, i, j) ==
    IF j < i THEN 0
    ELSE 10 * NumValue(text, i, j - 1) + DigitVal(text[j])

RECURSIVE ParseValue(_, _)
RECURSIVE ParseProps(_, _, _)
\* the properties of an object from text[i] on, after those in acc
ParseProps(text, i, acc) ==
    IF text[i] = "}" THEN [val |-> JObj(acc), next |-> i + 1]
    ELSE IF text[i] = "," THEN ParseProps(text, i + 1, acc)
    ELSE LET j == CloseQuote(text, i)
             name == SubSeq(text, i + 1, j - 1)
             p == ParseValue(text, j + 2)
         IN  ParseProps(text, p.next, Append(acc, <<name, p.val>>))

\* the value that starts at text[i], and the index after it
ParseValue(text, i) ==
    CASE text[i] = "n" -> [val |-> JNull, next |-> i + 4]
      [] text[i] = "t" -> [val |-> JBool(TRUE), next |-> i + 4]
      [] text[i] = "f" -> [val |-> JBool(FALSE), next |-> i + 5]
      [] text[i] = Quote ->
            LET j == CloseQuote(text, i)
            IN  [val |-> JStr(SubSeq(text, i + 1, j - 1)), next |-> j + 1]
      [] text[i] = "{" -> ParseProps(text, i + 1, <<>>)
      [] OTHER ->
            LET j == LastDigit(text, i)
            IN  [val |-> JNum(NumValue(text, i, j)), next |-> j + 1]

unstringify(text) == ParseValue(text, 1).val

(***************************************************************************)
(* Inputs and bounds                                                       *)
(***************************************************************************)
\* Cache.defaultTTL, and the stdTTL each constructor falls back to
defaultTTL == 300
\* the key column is varchar(255): the longest encoded key DB accepts
MaxKeyLength == 255
\* the milliseconds of a second: node-cache keeps its expirations, and DB.now
\* reads the clock, in milliseconds
Millis == 1000
\* the clock runs from 0 to MaxTime seconds
MaxTime == 2

A == <<"a">>
B == <<"b">>
\* two keys that are the same logical object, written in a different order
KeyAB == JObj(<< <<A, JNum(1)>>, <<B, JNum(2)>> >>)
KeyBA == JObj(<< <<B, JNum(2)>>, <<A, JNum(1)>> >>)
\* a plain string key
KeyK == JStr(<<"k">>)
\* a string key whose encoded form is MaxKeyLength + 1 characters long
KeyLong == JStr([i \in 1..(MaxKeyLength - 1) |-> "a"])

Falsy == {JBool(FALSE), JNum(0), JStr(<<>>), JNull}
Obj == JObj(<< <<A, JNum(1)>> >>)
TTLs == {1, 2}

\* the keys and the values the callers of one run use: two object keys or
\* two string keys, and one falsy value beside an object
Universes == [keys : {"objects", "strings"}, falsy : Falsy]

\* what the underlying client may do to a call: nothing, fail the connection
\* (client.connect, createTable), fail a read, fail a write, or fail the
\* EXPIRE commands that follow a write
Faults == {"none", "connect", "read", "write", "expire"}

Backends == {"Memory", "Redis", "Database"}

VARIABLES
    backend,    \* which of the three classes the instance is
    used,       \* the keys and values the callers use: an element of Universes
    now,        \* the clock, in seconds
    store,      \* what the client holds: encoded key -> [value, expiration]
    ready,      \* Memory.ready, DB.ready, the Redis client's isReady
    last,       \* the last call of the contract: operation, arguments, result
    calls,      \* the client calls the last call issued, in order
    emitted,    \* the notifications the last call emitted, in order
    inflight,   \* the callers inside a take: caller -> [pc, key, ret]
    options,    \* the options object the instance retains: field -> value
    timer       \* whether the check timer that sweeps expired entries runs

vars == <<backend, used, now, store, ready, last, calls, emitted, inflight, options,
         timer>>

UsedKeys == IF used.keys = "objects" THEN {KeyAB, KeyBA} ELSE {KeyK, KeyLong}
UsedValues == {used.falsy, Obj}

\* a Redis key written without EX has no expiration (TTL answers -1)
NoExpiry == 0 - 1

Row(value, expiration) == [value |-> value, expiration |-> expiration]
Put(st, k, row) == [x \in (DOMAIN st) \cup {k} |-> IF x = k THEN row ELSE st[x]]
Remove(st, ks) == [x \in (DOMAIN st) \ ks |-> st[x]]
Empty == Remove(<<>>, {})

\* a row the clock has passed
Expired(row) == row.expiration # NoExpiry /\ row.expiration < now
\* the keys a read may return
LiveKeys(st) == {k \in DOMAIN st : ~Expired(st[k])}

Event(name, key, value) == [name |-> name, key |-> key, value |-> value]
\* what a handler did: the store and readiness it leaves, what it returned or
\* threw, the client calls it issued and the notifications it emitted
Outcome(st, rdy, ret, err, cs, evs) ==
    [store |-> st, ready |-> rdy, ret |-> ret, err |-> err, calls |-> cs, events |-> evs]

Range(s) == {s[i] : i \in 1..Len(s)}

\* the characters of the texts, in code order, and the order of two texts by
\* them (a binary collation)
Alphabet == <<Quote, ",", "0", "1", "2", "3", "4", "5", "6", "7", "8", "9", ":",
              "a", "b", "e", "f", "k", "l", "n", "r", "s", "t", "u", "{", "}">>
CharCode(c) == CHOOSE i \in 1..Len(Alphabet) : Alphabet[i] = c
TextLess(x, y) ==
    \E i \in 1..(Len(y)) :
        /\ \A m \in 1..(i - 1) : m <= Len(x) /\ x[m] = y[m]
        /\ (i > Len(x) \/ CharCode(x[i]) < CharCode(y[i]))
RECURSIVE SortTexts(_)
SortTexts(S) ==
    IF S = {} THEN <<>>
    ELSE LET least == CHOOSE x \in S : \A y \in S \ {x} : TextLess(x, y)
         IN  <<least>> \o SortTexts(S \ {least})
Decode(texts) == [i \in 1..Len(texts) |-> unstringify(texts[i])]
\* the rows of an upsert or multi-set, written in order
RECURSIVE PutAll(_, _, _, _, _)
PutAll(st, _keys, texts, expiration, i) ==
    IF i > Len(_keys) THEN st
    ELSE PutAll(Put(st, _keys[i], Row(texts[i], expiration)), _keys, texts, expiration, i + 1)
\* the lists of the bulk operations: empty, single, and pairs (with repeats)
Lists(S) == {<<>>} \cup {<<x>> : x \in S} \cup {<<x, y>> : x \in S, y \in S}
Encode(keys) == [i \in 1..Len(keys) |-> stringify(keys[i])]

\* the client's answer: the stored text as a JavaScript string
Text(row) == JStr(row.value)
Flush == Event("flush", Undefined, Undefined)

(***************************************************************************)
(* Memory: the class over node-cache.  It has no connection and no call    *)
(* of it fails; node-cache deletes an expired entry when a call that       *)
(* checks it (get, has, mget, take) meets it, or when its check timer      *)
(* runs, and tells it with 'del' and 'expired'.                            *)
(***************************************************************************)
\* the constructor's re-emission of a node-cache notification
MemoryEmit(name, _key, text) == Event(name, unstringify(_key), unstringify(text))

\* node-cache's check of one entry: [store, events, ok]
NCCheck(st, _key) ==
    IF _key \notin DOMAIN st
    THEN [store |-> st, events |-> <<>>, ok |-> FALSE]
    ELSE IF Expired(st[_key])
    THEN [store |-> Remove(st, {_key}),
          events |-> <<MemoryEmit("del", _key, st[_key].value),
                       MemoryEmit("expired", _key, st[_key].value)>>,
          ok |-> FALSE]
    ELSE [store |-> st, events |-> <<>>, ok |-> TRUE]

\* node-cache's mget: the check of each listed entry in turn; found is the
\* object it answers, as the set of its encoded keys
RECURSIVE NCMget(_, _, _)
NCMget(st, _keys, i) ==
    IF i > Len(_keys) THEN [store |-> st, events |-> <<>>, found |-> {}]
    ELSE LET c == NCCheck(st, _keys[i])
             rest == NCMget(c.store, _keys, i + 1)
         IN  [store |-> rest.store,
              events |-> c.events \o rest.events,
              found |-> (IF c.ok THEN {_keys[i]} ELSE {}) \cup rest.found]

\* node-cache's del of a list: every entry it holds, expired or not
RECURSIVE NCDel(_, _, _)
NCDel(st, _keys, i) ==
    IF i > Len(_keys) THEN [store |-> st, events |-> <<>>, count |-> 0]
    ELSE LET had == _keys[i] \in DOMAIN st
             rest == NCDel(Remove(st, {_keys[i]}), _keys, i + 1)
         IN  [store |-> rest.store,
              events |-> (IF had THEN <<MemoryEmit("del", _keys[i], st[_keys[i]].value)>>
                          ELSE <<>>) \o rest.events,
              count |-> (IF had THEN 1 ELSE 0) + rest.count]

MemorySet(key, value, ttl, fault) ==
    LET _key == stringify(key)
        text == stringify(value)
    IN  Outcome(Put(store, _key, Row(text, now + ttl)), ready, JBool(TRUE), "none",
                <<"set">>, <<MemoryEmit("set", _key, text)>>)

MemoryGet(key, fault) ==
    LET _key == stringify(key)
        c == NCCheck(store, _key)
        response == IF c.ok THEN Text(c.store[_key]) ELSE Undefined
    IN  Outcome(c.store, ready,
                IF Truthy(response) THEN unstringify(response.v) ELSE Undefined,
                "none", <<"get">>, c.events)

\* an includes that asks whether the entry is held, without the check of it
MemoryIncludesHeld(key, fault) ==
    Outcome(store, ready, JBool(stringify(key) \in DOMAIN store), "none", <<"has">>, <<>>)

MemoryIncludes(key, fault) ==
    LET c == NCCheck(store, stringify(key))
    IN  Outcome(c.store, ready, JBool(c.ok), "none", <<"has">>, c.events)

MemoryDel(key, fault) ==
    LET d == NCDel(store, <<stringify(key)>>, 1)
    IN  Outcome(d.store, ready, JNum(d.count), "none", <<"del">>, d.events)

MemoryClear(fault) ==
    Outcome(Empty, ready, JBool(TRUE), "none", <<"flushAll">>, <<Flush>>)

MemoryTake(key, fault) ==
    LET _key == stringify(key)
        c == NCCheck(store, _key)
        value == IF c.ok THEN Text(c.store[_key]) ELSE Undefined
        d == IF c.ok THEN NCDel(c.store, <<_key>>, 1)
             ELSE [store |-> c.store, events |-> <<>>, count |-> 0]
    IN  Outcome(d.store, ready,
                IF Truthy(value) THEN unstringify(value.v) ELSE Undefined,
                "none", <<"take">>, c.events \o d.events)

\* node-cache lists every entry it holds, checked or not, in its own order;
\* the model lists them in text order
MemoryKeys(fault) ==
    Outcome(store, ready, JArray(Decode(SortTexts(DOMAIN store))), "none",
            <<"keys">>, <<>>)

\* the Map is modelled as the set of its <<key, value>> entries
MemoryMget(keys, fault) ==
    LET m == NCMget(store, Encode(keys), 1)
    IN  Outcome(m.store, ready,
                JMap({<<unstringify(k), unstringify(m.store[k].value)>> :
                         k \in {x \in m.found : Truthy(Text(m.store[x]))}}),
                "none", <<"mget">>, m.events)

\* an mset that writes the pairs it can form before it compares the lengths
MemoryMsetLate(keys, values, ttl, fault) ==
    LET _keys == Encode(keys)
        _values == Encode(values)
        n == IF Len(keys) < Len(values) THEN Len(keys) ELSE Len(values)
    IN  IF Len(keys) # Len(values)
        THEN Outcome(PutAll(store, SubSeq(_keys, 1, n), SubSeq(_values, 1, n), now + ttl, 1),
                     ready, Undefined, "LengthMismatch", <<"mset">>,
                     [i \in 1..n |-> MemoryEmit("set", _keys[i], _values[i])])
        ELSE Outcome(PutAll(store, _keys, _values, now + ttl, 1), ready, JBool(TRUE),
                     "none", <<"mset">>,
                     [i \in 1..Len(keys) |-> MemoryEmit("set", _keys[i], _values[i])])

MemoryMset(keys, values, ttl, fault) ==
    IF Len(keys) # Len(values)
    THEN Outcome(store, ready, Undefined, "LengthMismatch", <<>>, <<>>)
    ELSE LET _keys == Encode(keys)
             _values == Encode(values)
         IN  Outcome(PutAll(store, _keys, _values, now + ttl, 1), ready, JBool(TRUE),
                     "none", <<"mset">>,
                     [i \in 1..Len(keys) |-> MemoryEmit("set", _keys[i], _values[i])])

\* keys(), then mget of them all
MemoryList(fault) ==
    LET m == NCMget(store, SortTexts(DOMAIN store), 1)
    IN  Outcome(m.store, ready,
                JMap({<<unstringify(k), unstringify(m.store[k].value)>> :
                         k \in {x \in m.found : Truthy(Text(m.store[x]))}}),
                "none", <<"keys", "mget">>, m.events)

\* node-cache's del of the whole list
MemoryMdel(keys, fault) ==
    LET d == NCDel(store, Encode(keys), 1)
    IN  Outcome(d.store, ready, JNum(d.count), "none", <<"del">>, d.events)

\* node-cache's ttl: the check of the entry, then its value wrapped anew
MemoryTtl(key, ttl, fault) ==
    LET _key == stringify(key)
        c == NCCheck(store, _key)
    IN  IF c.ok
        THEN Outcome(Put(c.store, _key, Row(c.store[_key].value, now + ttl)), ready,
                     JBool(TRUE), "none", <<"ttl">>, c.events)
        ELSE Outcome(c.store, ready, JBool(FALSE), "none", <<"ttl">>, c.events)

\* node-cache's getTtl: the check of the entry, then the timestamp (in
\* milliseconds) at which it expires
MemoryGetTtl(key, fault) ==
    LET _key == stringify(key)
        c == NCCheck(store, _key)
    IN  Outcome(c.store, ready,
                IF c.ok THEN JNum(c.store[_key].expiration * Millis) ELSE Undefined,
                "none", <<"getTtl">>, c.events)

\* a handler that throws err, having changed nothing in the store
Throw(err, rdy, cs) == Outcome(store, rdy, Undefined, err, cs, <<>>)

(***************************************************************************)
(* Redis: the class over node-redis.  Every method connects first when the *)
(* client is not ready.  The server never shows an expired key and drops   *)
(* it when a command meets it.  The class emits no 'set', 'del' or         *)
(* 'flush'.                                                                *)
(***************************************************************************)
\* if (!this.client.isReady) await this.connect(): [ok, ready, calls]
RedisConnect(fault) ==
    IF ready THEN [ok |-> TRUE, ready |-> TRUE, calls |-> <<>>]
    ELSE [ok |-> fault # "connect", ready |-> fault # "connect", calls |-> <<"connect">>]

\* the server's expiry of the keys a command meets
RedisPurge(st, ks) == Remove(st, {k \in ks \cap DOMAIN st : Expired(st[k])})

RedisSet(key, value, ttl, fault) ==
    LET c == RedisConnect(fault)
        _key == stringify(key)
    IN  IF ~c.ok THEN Throw("Client", c.ready, c.calls)
        ELSE IF fault = "write" THEN Throw("Client", c.ready, c.calls \o <<"SET">>)
        ELSE Outcome(Put(store, _key, Row(stringify(value), now + ttl)), c.ready,
                     JBool(TRUE), "none", c.calls \o <<"SET">>, <<>>)

\* a get that tests the decoded value, as take does, and not the stored text
RedisGetDecoded(key, fault) ==
    LET c == RedisConnect(fault)
        _key == stringify(key)
        st == RedisPurge(store, {_key})
        response == IF _key \in DOMAIN st THEN Text(st[_key]) ELSE JNull
        value == IF Truthy(response) THEN unstringify(response.v) ELSE Undefined
    IN  IF ~c.ok THEN Throw("Client", c.ready, c.calls)
        ELSE IF fault = "read" THEN Throw("Client", c.ready, c.calls \o <<"GET">>)
        ELSE Outcome(st, c.ready, IF Truthy(value) THEN value ELSE Undefined,
                     "none", c.calls \o <<"GET">>, <<>>)

RedisGet(key, fault) ==
    LET c == RedisConnect(fault)
        _key == stringify(key)
        st == RedisPurge(store, {_key})
        response == IF _key \in DOMAIN st THEN Text(st[_key]) ELSE JNull
    IN  IF ~c.ok THEN Throw("Client", c.ready, c.calls)
        ELSE IF fault = "read" THEN Throw("Client", c.ready, c.calls \o <<"GET">>)
        ELSE Outcome(st, c.ready,
                     IF Truthy(response) THEN unstringify(response.v) ELSE Undefined,
                     "none", c.calls \o <<"GET">>, <<>>)

RedisIncludes(key, fault) ==
    LET c == RedisConnect(fault)
        _key == stringify(key)
        st == RedisPurge(store, {_key})
        exists == IF _key \in DOMAIN st THEN 1 ELSE 0
    IN  IF ~c.ok THEN Throw("Client", c.ready, c.calls)
        ELSE IF fault = "read" THEN Throw("Client", c.ready, c.calls \o <<"EXISTS">>)
        ELSE Outcome(st, c.ready, JBool(exists = 1), "none", c.calls \o <<"EXISTS">>, <<>>)

RedisDel(key, fault) ==
    LET c == RedisConnect(fault)
        _key == stringify(key)
        st == RedisPurge(store, {_key})
        count == IF _key \in DOMAIN st THEN 1 ELSE 0
    IN  IF ~c.ok THEN Throw("Client", c.ready, c.calls)
        ELSE IF fault = "write" THEN Throw("Client", c.ready, c.calls \o <<"DEL">>)
        ELSE Outcome(Remove(st, {_key}), c.ready, JNum(count), "none",
                     c.calls \o <<"DEL">>, <<>>)

RedisClear(fault) ==
    LET c == RedisConnect(fault)
    IN  IF ~c.ok THEN Throw("Client", c.ready, c.calls)
        ELSE IF fault = "write" THEN Throw("Client", c.ready, c.calls \o <<"FLUSHALL">>)
        ELSE Outcome(Empty, c.ready, JBool(TRUE), "none", c.calls \o <<"FLUSHALL">>, <<>>)

\* KEYS * answers in the server's own order; the model lists in text order
RedisKeys(fault) ==
    LET c == RedisConnect(fault)
    IN  IF ~c.ok THEN Throw("Client", c.ready, c.calls)
        ELSE IF fault = "read" THEN Throw("Client", c.ready, c.calls \o <<"KEYS">>)
        ELSE Outcome(store, c.ready, JArray(Decode(SortTexts(LiveKeys(store)))), "none",
                     c.calls \o <<"KEYS">>, <<>>)

\* MGET without a key is an error of the server (wrong number of arguments)
RedisMget(keys, fault) ==
    LET c == RedisConnect(fault)
        fetch_keys == Encode(keys)
        st == RedisPurge(store, Range(fetch_keys))
        data == [i \in 1..Len(keys) |->
                    IF fetch_keys[i] \in DOMAIN st THEN Text(st[fetch_keys[i]]) ELSE JNull]
    IN  IF ~c.ok THEN Throw("Client", c.ready, c.calls)
        ELSE IF fault = "read" \/ Len(keys) = 0
        THEN Throw("Client", c.ready, c.calls \o <<"MGET">>)
        ELSE Outcome(st, c.ready,
                     JMap({<<keys[i], unstringify(data[i].v)>> :
                              i \in {x \in 1..Len(keys) : Truthy(data[x])}}),
                     "none", c.calls \o <<"MGET">>, <<>>)

\* get, then del when the decoded value is truthy
RedisTake(key, fault) ==
    LET c == RedisConnect(fault)
        _key == stringify(key)
        st == RedisPurge(store, {_key})
        response == IF _key \in DOMAIN st THEN Text(st[_key]) ELSE JNull
        value == IF Truthy(response) THEN unstringify(response.v) ELSE Undefined
    IN  IF ~c.ok THEN Throw("Client", c.ready, c.calls)
        ELSE IF fault = "read" THEN Throw("Client", c.ready, c.calls \o <<"GET">>)
        ELSE IF ~Truthy(value)
        THEN Outcome(st, c.ready, Undefined, "none", c.calls \o <<"GET">>, <<>>)
        ELSE IF fault = "write"
        THEN Outcome(st, c.ready, Undefined, "Client", c.calls \o <<"GET", "DEL">>, <<>>)
        ELSE Outcome(Remove(st, {_key}), c.ready, value, "none",
                     c.calls \o <<"GET", "DEL">>, <<>>)

\* MSET (which leaves the keys without expiration), then one EXPIRE per key;
\* ttl() answers true unless its EXPIRE throws
RedisMset(keys, values, ttl, fault) ==
    LET c == RedisConnect(fault)
        _keys == Encode(keys)
        _values == Encode(values)
        expires == [i \in 1..Len(keys) |-> "EXPIRE"]
    IN  IF ~c.ok THEN Throw("Client", c.ready, c.calls)
        ELSE IF Len(keys) # Len(values) THEN Throw("LengthMismatch", c.ready, c.calls)
        ELSE IF fault = "write" \/ Len(keys) = 0
        THEN Throw("Client", c.ready, c.calls \o <<"MSET">>)
        ELSE IF fault = "expire"
        THEN Outcome(PutAll(store, _keys, _values, NoExpiry, 1), c.ready,
                     JBool(Len(keys) = 0), "none", c.calls \o <<"MSET">> \o expires, <<>>)
        ELSE Outcome(PutAll(store, _keys, _values, now + ttl, 1), c.ready,
                     JBool(TRUE), "none", c.calls \o <<"MSET">> \o expires, <<>>)

\* keys(), then mget of them all: MGET without a key when there is none
RedisList(fault) ==
    LET c == RedisConnect(fault)
        st == RedisPurge(store, DOMAIN store)
    IN  IF ~c.ok THEN Throw("Client", c.ready, c.calls)
        ELSE IF fault = "read" THEN Throw("Client", c.ready, c.calls \o <<"KEYS">>)
        ELSE IF DOMAIN st = {}
        THEN Throw("Client", c.ready, c.calls \o <<"KEYS", "MGET">>)
        ELSE Outcome(st, c.ready,
                     JMap({<<unstringify(k), unstringify(st[k].value)>> : k \in DOMAIN st}),
                     "none", c.calls \o <<"KEYS", "MGET">>, <<>>)

\* DEL of the listed keys (an error of the server when there is none): the
\* number of keys it removed
RedisMdel(keys, fault) ==
    LET c == RedisConnect(fault)
        _keys == Encode(keys)
        st == RedisPurge(store, Range(_keys))
    IN  IF ~c.ok THEN Throw("Client", c.ready, c.calls)
        ELSE IF fault = "write" \/ Len(keys) = 0
        THEN Throw("Client", c.ready, c.calls \o <<"DEL">>)
        ELSE Outcome(Remove(st, Range(_keys)), c.ready,
                     JNum(Cardinality(Range(_keys) \cap DOMAIN st)), "none",
                     c.calls \o <<"DEL">>, <<>>)

\* EXPIRE, whose answer (whether the key exists) is dropped: true unless
\* the command throws
RedisTtl(key, ttl, fault) ==
    LET c == RedisConnect(fault)
        _key == stringify(key)
        st == RedisPurge(store, {_key})
    IN  IF ~c.ok THEN Throw("Client", c.ready, c.calls)
        ELSE IF fault = "expire"
        THEN Outcome(store, c.ready, JBool(FALSE), "none", c.calls \o <<"EXPIRE">>, <<>>)
        ELSE Outcome(IF _key \in DOMAIN st
                     THEN Put(st, _key, Row(st[_key].value, now + ttl)) ELSE st,
                     c.ready, JBool(TRUE), "none", c.calls \o <<"EXPIRE">>, <<>>)

\* TTL: the seconds left, -1 for a key without expiration, -2 for none
RedisGetTtl(key, fault) ==
    LET c == RedisConnect(fault)
        _key == stringify(key)
        st == RedisPurge(store, {_key})
        result == IF _key \notin DOMAIN st THEN 0 - 2
                  ELSE IF st[_key].expiration = NoExpiry THEN 0 - 1
                  ELSE st[_key].expiration - now
    IN  IF ~c.ok THEN Throw("Client", c.ready, c.calls)
        ELSE IF fault = "read" THEN Throw("Client", c.ready, c.calls \o <<"TTL">>)
        ELSE Outcome(st, c.ready, IF result >= 0 THEN JNum(result) ELSE Undefined,
                     "none", c.calls \o <<"TTL">>, <<>>)

(***************************************************************************)
(* DB: the class over a SQL table (key, value, expiration), key primary.   *)
(***************************************************************************)
\* checkReady: create the table unless ready: [ok, ready, calls]
checkReady(fault) ==
    IF ready THEN [ok |-> TRUE, ready |-> TRUE, calls |-> <<>>]
    ELSE [ok |-> fault # "connect", ready |-> fault # "connect",
          calls |-> <<"createTable">>]

TooLong(_keys) == \E i \in 1..Len(_keys) : Len(_keys[i]) > MaxKeyLength

\* SELECT ... WHERE key = ? AND expiration >= ?
DBSelect(st, _key) ==
    IF _key \in DOMAIN st /\ st[_key].expiration >= now THEN <<st[_key]>> ELSE <<>>

\* a set that emits 'set' before it knows whether the upsert succeeded
DBSetEmitFirst(key, value, ttl, fault) ==
    LET r == checkReady(fault)
        _key == stringify(key)
        expiration == now + ttl
    IN  IF ~r.ok THEN Throw("Client", r.ready, r.calls)
        ELSE IF Len(_key) > MaxKeyLength THEN Throw("KeySize", r.ready, r.calls)
        ELSE IF fault = "write"
        THEN Outcome(store, r.ready, JBool(FALSE), "none", r.calls \o <<"multiUpdate">>,
                     <<Event("set", key, value)>>)
        ELSE Outcome(Put(store, _key, Row(stringify(value), expiration)), r.ready,
                     JBool(TRUE), "none", r.calls \o <<"multiUpdate">>,
                     <<Event("set", key, value)>>)

\* an insert that leaves the row of a key that is already held as it is
DBSetKeep(key, value, ttl, fault) ==
    LET r == checkReady(fault)
        _key == stringify(key)
        expiration == now + ttl
    IN  IF ~r.ok THEN Throw("Client", r.ready, r.calls)
        ELSE IF Len(_key) > MaxKeyLength THEN Throw("KeySize", r.ready, r.calls)
        ELSE IF fault = "write"
        THEN Outcome(store, r.ready, JBool(FALSE), "none", r.calls \o <<"multiUpdate">>, <<>>)
        ELSE Outcome(IF _key \in DOMAIN store THEN store
                     ELSE Put(store, _key, Row(stringify(value), expiration)), r.ready,
                     JBool(TRUE), "none", r.calls \o <<"multiUpdate">>,
                     <<Event("set", key, value)>>)

DBSet(key, value, ttl, fault) ==
    LET r == checkReady(fault)
        _key == stringify(key)
        expiration == now + ttl
    IN  IF ~r.ok THEN Throw("Client", r.ready, r.calls)
        ELSE IF Len(_key) > MaxKeyLength THEN Throw("KeySize", r.ready, r.calls)
        ELSE IF fault = "write"
        THEN Outcome(store, r.ready, JBool(FALSE), "none", r.calls \o <<"multiUpdate">>, <<>>)
        ELSE Outcome(Put(store, _key, Row(stringify(value), expiration)), r.ready,
                     JBool(TRUE), "none", r.calls \o <<"multiUpdate">>,
                     <<Event("set", key, value)>>)

DBGet(key, fault) ==
    LET r == checkReady(fault)
        _key == stringify(key)
        rows == DBSelect(store, _key)
    IN  IF ~r.ok THEN Throw("Client", r.ready, r.calls)
        ELSE IF Len(_key) > MaxKeyLength THEN Throw("KeySize", r.ready, r.calls)
        ELSE IF fault = "read" THEN Throw("Client", r.ready, r.calls \o <<"SELECT">>)
        ELSE Outcome(store, r.ready,
                     IF Len(rows) > 0 THEN unstringify(rows[1].value) ELSE Undefined,
                     "none", r.calls \o <<"SELECT">>, <<>>)

DBIncludes(key, fault) ==
    LET g == DBGet(key, fault)
    IN  IF g.err # "none" THEN g
        ELSE Outcome(g.store, g.ready, JBool(g.ret.t # "undefined"), "none", g.calls, <<>>)

\* get (for the notification), then DELETE ... WHERE key = ?; 'del' is emitted
\* whenever the statement ran
DBDel(key, fault) ==
    LET g == DBGet(key, fault)
        _key == stringify(key)
        affectedRows == IF _key \in DOMAIN store THEN 1 ELSE 0
    IN  IF g.err # "none" THEN g
        ELSE IF fault = "write"
        THEN Outcome(store, g.ready, JNum(0), "none", g.calls \o <<"DELETE">>, <<>>)
        ELSE Outcome(Remove(store, {_key}), g.ready, JNum(affectedRows), "none",
                     g.calls \o <<"DELETE">>, <<Event("del", key, g.ret)>>)

\* a clear that answers true whatever truncate answered
DBClearAlways(fault) ==
    LET r == checkReady(fault)
    IN  IF ~r.ok THEN Throw("Client", r.ready, r.calls)
        ELSE Outcome(IF fault = "write" THEN store ELSE Empty, r.ready, JBool(TRUE),
                     "none", r.calls \o <<"truncate">>, <<Flush>>)

\* truncate answers false when it fails
DBClear(fault) ==
    LET r == checkReady(fault)
    IN  IF ~r.ok THEN Throw("Client", r.ready, r.calls)
        ELSE IF fault = "write"
        THEN Outcome(store, r.ready, JBool(FALSE), "none", r.calls \o <<"truncate">>, <<>>)
        ELSE Outcome(Empty, r.ready, JBool(TRUE), "none", r.calls \o <<"truncate">>,
                     <<Flush>>)

\* SELECT key ... WHERE expiration >= ? ORDER BY key
DBKeys(fault) ==
    LET r == checkReady(fault)
    IN  IF ~r.ok THEN Throw("Client", r.ready, r.calls)
        ELSE IF fault = "read"
        THEN Outcome(store, r.ready, JArray(<<>>), "none", r.calls \o <<"SELECT">>, <<>>)
        ELSE Outcome(store, r.ready,
                     JArray(Decode(SortTexts(
                         {k \in DOMAIN store : store[k].expiration >= now}))),
                     "none", r.calls \o <<"SELECT">>, <<>>)

\* one SELECT per key, joined by UNION; for no key the statement is empty
\* and answers no row
DBMget(keys, fault) ==
    LET r == checkReady(fault)
        fetch_keys == Encode(keys)
        rows == {k \in Range(fetch_keys) : Len(DBSelect(store, k)) > 0}
    IN  IF ~r.ok THEN Throw("Client", r.ready, r.calls)
        ELSE IF TooLong(fetch_keys) THEN Throw("KeySize", r.ready, r.calls)
        ELSE IF fault = "read" THEN Throw("Client", r.ready, r.calls \o <<"SELECT">>)
        ELSE Outcome(store, r.ready,
                     JMap({<<unstringify(k), unstringify(store[k].value)>> : k \in rows}),
                     "none", r.calls \o <<"SELECT">>, <<>>)

\* an mset that writes the first row only
DBMsetFirst(keys, values, ttl, fault) ==
    LET r == checkReady(fault)
        _keys == Encode(keys)
        _values == Encode(values)
        expiration == now + ttl
    IN  IF ~r.ok THEN Throw("Client", r.ready, r.calls)
        ELSE IF Len(keys) # Len(values) THEN Throw("LengthMismatch", r.ready, r.calls)
        ELSE IF TooLong(_keys) THEN Throw("KeySize", r.ready, r.calls)
        ELSE IF fault = "write"
        THEN Outcome(store, r.ready, JBool(FALSE), "none", r.calls \o <<"multiUpdate">>, <<>>)
        ELSE Outcome(PutAll(store, [i \in 1..(IF Len(keys) = 0 THEN 0 ELSE 1) |-> _keys[i]],
                            _values, expiration, 1),
                     r.ready, JBool(TRUE), "none", r.calls \o <<"multiUpdate">>,
                     [i \in 1..Len(keys) |-> Event("set", keys[i], values[i])])

DBMset(keys, values, ttl, fault) ==
    LET r == checkReady(fault)
        _keys == Encode(keys)
        _values == Encode(values)
        expiration == now + ttl
    IN  IF ~r.ok THEN Throw("Client", r.ready, r.calls)
        ELSE IF Len(keys) # Len(values) THEN Throw("LengthMismatch", r.ready, r.calls)
        ELSE IF TooLong(_keys) THEN Throw("KeySize", r.ready, r.calls)
        ELSE IF fault = "write"
        THEN Outcome(store, r.ready, JBool(FALSE), "none", r.calls \o <<"multiUpdate">>, <<>>)
        ELSE Outcome(PutAll(store, _keys, _values, expiration, 1), r.ready, JBool(TRUE),
                     "none", r.calls \o <<"multiUpdate">>,
                     [i \in 1..Len(keys) |-> Event("set", keys[i], values[i])])

\* value = this.get(key) is not awaited: the promise is truthy, so del(key)
\* always runs (its own get, then the DELETE), and take answers what the
\* first get resolves to
DBTake(key, fault) ==
    LET r == checkReady(fault)
        value == DBGet(key, fault)
        d == DBDel(key, fault)
        twice == r.calls \o r.calls
    IN  IF ~r.ok THEN Throw("Client", r.ready, twice)
        ELSE IF d.err = "KeySize" THEN Throw("KeySize", r.ready, twice)
        ELSE IF fault = "read"
        THEN Throw("Client", r.ready, twice \o <<"SELECT", "SELECT">>)
        ELSE Outcome(d.store, d.ready, value.ret, "none",
                     twice \o <<"SELECT", "SELECT", "DELETE">>, d.events)

\* SELECT key, value ... WHERE expiration >= ?
DBList(fault) ==
    LET r == checkReady(fault)
        rows == {k \in DOMAIN store : store[k].expiration >= now}
    IN  IF ~r.ok THEN Throw("Client", r.ready, r.calls)
        ELSE IF fault = "read" THEN Throw("Client", r.ready, r.calls \o <<"SELECT">>)
        ELSE Outcome(store, r.ready,
                     JMap({<<unstringify(k), unstringify(store[k].value)>> : k \in rows}),
                     "none", r.calls \o <<"SELECT">>, <<>>)

\* mget (for the notifications), then one DELETE ... WHERE key = ? per listed
\* key in a transaction, outside any try
DBMdel(keys, fault) ==
    LET values == DBMget(keys, fault)
        _keys == Encode(keys)
        count == Cardinality(Range(_keys) \cap DOMAIN store)
    IN  IF values.err # "none" THEN values
        ELSE IF fault = "write"
        THEN Throw("Client", values.ready, values.calls \o <<"transaction">>)
        ELSE Outcome(Remove(store, Range(_keys)), values.ready, JNum(count), "none",
                     values.calls \o <<"transaction">>,
                     [i \in 1..Len(SortTexts({stringify(e[1]) : e \in values.ret.v})) |->
                        LET k == SortTexts({stringify(e[1]) : e \in values.ret.v})[i]
                        IN  Event("del", unstringify(k), unstringify(store[k].value))])

\* UPDATE ... SET expiration = ? with no WHERE clause: every row is moved
DBTtlAll(key, ttl, fault) ==
    LET r == checkReady(fault)
        expiration == now + ttl
        _key == stringify(key)
        affectedRows == IF _key \in DOMAIN store THEN 1 ELSE 0
    IN  IF ~r.ok THEN Throw("Client", r.ready, r.calls)
        ELSE IF Len(_key) > MaxKeyLength THEN Throw("KeySize", r.ready, r.calls)
        ELSE IF fault = "write"
        THEN Outcome(store, r.ready, JBool(FALSE), "none", r.calls \o <<"UPDATE">>, <<>>)
        ELSE Outcome([k \in DOMAIN store |-> Row(store[k].value, expiration)],
                     r.ready, JBool(affectedRows # 0), "none", r.calls \o <<"UPDATE">>, <<>>)

\* UPDATE ... SET expiration = ? WHERE key = ?
DBTtl(key, ttl, fault) ==
    LET r == checkReady(fault)
        expiration == now + ttl
        _key == stringify(key)
        affectedRows == IF _key \in DOMAIN store THEN 1 ELSE 0
    IN  IF ~r.ok THEN Throw("Client", r.ready, r.calls)
        ELSE IF Len(_key) > MaxKeyLength THEN Throw("KeySize", r.ready, r.calls)
        ELSE IF fault = "write"
        THEN Outcome(store, r.ready, JBool(FALSE), "none", r.calls \o <<"UPDATE">>, <<>>)
        ELSE Outcome(IF affectedRows # 0
                     THEN Put(store, _key, Row(store[_key].value, expiration)) ELSE store,
                     r.ready, JBool(affectedRows # 0), "none", r.calls \o <<"UPDATE">>, <<>>)

\* a getTtl that reads the table without checkReady
DBGetTtlUnchecked(key, fault) ==
    LET _key == stringify(key)
    IN  IF Len(_key) > MaxKeyLength THEN Throw("KeySize", ready, <<>>)
        ELSE IF fault = "read" THEN Throw("Client", ready, <<"SELECT">>)
        ELSE Outcome(store, ready,
                     IF _key \in DOMAIN store
                     THEN JNum(store[_key].expiration - now) ELSE Undefined,
                     "none", <<"SELECT">>, <<>>)

\* SELECT expiration ... WHERE key = ?
DBGetTtl(key, fault) ==
    LET r == checkReady(fault)
        _key == stringify(key)
    IN  IF ~r.ok THEN Throw("Client", r.ready, r.calls)
        ELSE IF Len(_key) > MaxKeyLength THEN Throw("KeySize", r.ready, r.calls)
        ELSE IF fault = "read" THEN Throw("Client", r.ready, r.calls \o <<"SELECT">>)
        ELSE Outcome(store, r.ready,
                     IF _key \in DOMAIN store
                     THEN JNum(store[_key].expiration - now) ELSE Undefined,
                     "none", r.calls \o <<"SELECT">>, <<>>)

(***************************************************************************)
(* The contract: one action per operation, on whichever backend            *)
(***************************************************************************)
\* a call as its caller sees it, with the fault put into it and the encoded
\* keys the client held when it began
Call(op, keys, values, ttl, fault, out) ==
    [op |-> op, keys |-> keys, values |-> values, ttl |-> ttl, fault |-> fault,
     before |-> DOMAIN store, ret |-> out.ret, err |-> out.err]

\* no call is in progress
Idle ==
    [op |-> "idle", keys |-> <<>>, values |-> <<>>, ttl |-> 0, fault |-> "none",
     before |-> {}, ret |-> Undefined, err |-> "none"]

\* node-cache's close() stops its check timer; DB.disconnect and
\* Redis.disconnect close the client and leave the timer as it is
TimerOn(op) ==
    IF op = "disconnect" /\ backend = "Memory" THEN FALSE ELSE timer

\* a call runs from an idle instance to its result
Do(op, keys, values, ttl, fault, out) ==
    /\ last.op = "idle"
    /\ store' = out.store
    /\ ready' = out.ready
    /\ last' = Call(op, keys, values, ttl, fault, out)
    /\ calls' = out.calls
    /\ emitted' = out.events
    /\ timer' = TimerOn(op)
    /\ UNCHANGED <<backend, used, now, inflight, options>>

\* the faults that can change what a call does: none on Memory, the
\* connection only while not ready, and those of the kinds the call issues
May(kinds) ==
    IF backend = "Memory" THEN {"none"}
    ELSE {"none"} \cup (IF ready THEN {} ELSE {"connect"}) \cup kinds

SetOn(key, value, ttl, fault) ==
    CASE backend = "Memory" -> MemorySet(key, value, ttl, fault)
      [] backend = "Redis" -> RedisSet(key, value, ttl, fault)
      [] OTHER -> DBSet(key, value, ttl, fault)
GetOn(key, fault) ==
    CASE backend = "Memory" -> MemoryGet(key, fault)
      [] backend = "Redis" -> RedisGet(key, fault)
      [] OTHER -> DBGet(key, fault)
IncludesOn(key, fault) ==
    CASE backend = "Memory" -> MemoryIncludes(key, fault)
      [] backend = "Redis" -> RedisIncludes(key, fault)
      [] OTHER -> DBIncludes(key, fault)
DelOn(key, fault) ==
    CASE backend = "Memory" -> MemoryDel(key, fault)
      [] backend = "Redis" -> RedisDel(key, fault)
      [] OTHER -> DBDel(key, fault)
ClearOn(fault) ==
    CASE backend = "Memory" -> MemoryClear(fault)
      [] backend = "Redis" -> RedisClear(fault)
      [] OTHER -> DBClear(fault)
KeysOn(fault) ==
    CASE backend = "Memory" -> MemoryKeys(fault)
      [] backend = "Redis" -> RedisKeys(fault)
      [] OTHER -> DBKeys(fault)
MgetOn(keys, fault) ==
    CASE backend = "Memory" -> MemoryMget(keys, fault)
      [] backend = "Redis" -> RedisMget(keys, fault)
      [] OTHER -> DBMget(keys, fault)
MsetOn(keys, values, ttl, fault) ==
    CASE backend = "Memory" -> MemoryMset(keys, values, ttl, fault)
      [] backend = "Redis" -> RedisMset(keys, values, ttl, fault)
      [] OTHER -> DBMset(keys, values, ttl, fault)
TakeOn(key, fault) ==
    CASE backend = "Memory" -> MemoryTake(key, fault)
      [] backend = "Redis" -> RedisTake(key, fault)
      [] OTHER -> DBTake(key, fault)
ListOn(fault) ==
    CASE backend = "Memory" -> MemoryList(fault)
      [] backend = "Redis" -> RedisList(fault)
      [] OTHER -> DBList(fault)
MdelOn(keys, fault) ==
    CASE backend = "Memory" -> MemoryMdel(keys, fault)
      [] backend = "Redis" -> RedisMdel(keys, fault)
      [] OTHER -> DBMdel(keys, fault)
TtlOn(key, ttl, fault) ==
    CASE backend = "Memory" -> MemoryTtl(key, ttl, fault)
      [] backend = "Redis" -> RedisTtl(key, ttl, fault)
      [] OTHER -> DBTtl(key, ttl, fault)
GetTtlOn(key, fault) ==
    CASE backend = "Memory" -> MemoryGetTtl(key, fault)
      [] backend = "Redis" -> RedisGetTtl(key, fault)
      [] OTHER -> DBGetTtl(key, fault)

Set ==
    \E key \in UsedKeys, value \in UsedValues, ttl \in TTLs, fault \in May({"write"}) :
        Do("set", <<key>>, <<value>>, ttl, fault, SetOn(key, value, ttl, fault))
Get ==
    \E key \in UsedKeys, fault \in May({"read"}) :
        Do("get", <<key>>, <<>>, 0, fault, GetOn(key, fault))
Includes ==
    \E key \in UsedKeys, fault \in May({"read"}) :
        Do("includes", <<key>>, <<>>, 0, fault, IncludesOn(key, fault))
Del ==
    \E key \in UsedKeys, fault \in May({"read", "write"}) :
        Do("del", <<key>>, <<>>, 0, fault, DelOn(key, fault))
Clear ==
    \E fault \in May({"write"}) :
        Do("clear", <<>>, <<>>, 0, fault, ClearOn(fault))
KeysOp ==
    \E fault \in May({"read"}) :
        Do("keys", <<>>, <<>>, 0, fault, KeysOn(fault))
Mget ==
    \E keys \in Lists(UsedKeys), fault \in May({"read"}) :
        Do("mget", keys, <<>>, 0, fault, MgetOn(keys, fault))
\* lists of unequal lengths are refused before the ttl or a command is used:
\* they are tried with one ttl and without a fault of a command
Mset ==
    \E keys \in Lists(UsedKeys), values \in Lists(UsedValues), ttl \in TTLs,
       fault \in May({"write", "expire"}) :
        /\ Len(keys) # Len(values) => ttl = 1 /\ fault \in {"none", "connect"}
        /\ Do("mset", keys, values, ttl, fault, MsetOn(keys, values, ttl, fault))
Take ==
    \E key \in UsedKeys, fault \in May({"read", "write"}) :
        Do("take", <<key>>, <<>>, 0, fault, TakeOn(key, fault))
List ==
    \E fault \in May({"read"}) :
        Do("list", <<>>, <<>>, 0, fault, ListOn(fault))
Mdel ==
    \E keys \in Lists(UsedKeys), fault \in May({"read", "write"}) :
        Do("mdel", keys, <<>>, 0, fault, MdelOn(keys, fault))
Ttl ==
    \E key \in UsedKeys, ttl \in TTLs, fault \in May({"write", "expire"}) :
        Do("ttl", <<key>>, <<>>, ttl, fault, TtlOn(key, ttl, fault))
GetTtl ==
    \E key \in UsedKeys, fault \in May({"read"}) :
        Do("getTtl", <<key>>, <<>>, 0, fault, GetTtlOn(key, fault))

\* the caller takes the result
Return ==
    /\ last.op \notin {"idle", "given"}
    /\ last' = Idle
    /\ calls' = <<>>
    /\ emitted' = <<>>
    /\ UNCHANGED <<backend, used, now, store, ready, inflight, options, timer>>

(***************************************************************************)
(* The clock and the expiration sweeps                                     *)
(***************************************************************************)
Tick ==
    /\ last.op = "idle"
    /\ now < MaxTime
    /\ now' = now + 1
    /\ UNCHANGED <<backend, used, store, ready, last, calls, emitted, inflight, options, timer>>

\* node-cache's check timer: the check of every entry it holds
MemorySweep(fault) ==
    LET m == NCMget(store, SortTexts(DOMAIN store), 1)
    IN  Outcome(m.store, ready, Undefined, "none", <<>>, m.events)
\* the server's own expiry cycle
RedisSweep(fault) ==
    Outcome(RedisPurge(store, DOMAIN store), ready, Undefined, "none", <<>>, <<>>)
\* a sweep that also deletes the rows that expire at this very second
DBSweepEager(fault) ==
    IF fault = "write" \/ ~ready
    THEN Outcome(store, ready, Undefined, "none", <<"DELETE">>, <<>>)
    ELSE Outcome(Remove(store, {k \in DOMAIN store : store[k].expiration <= now}),
                 ready, Undefined, "none", <<"DELETE">>, <<>>)
\* a sweep whose DELETE removes nothing
DBSweepNone(fault) ==
    Outcome(store, ready, Undefined, "none", <<"DELETE">>, <<>>)

\* the checkTimer tick: DELETE ... WHERE expiration < ?, any failure swallowed
\* (the table does not exist before the first checkReady)
DBSweep(fault) ==
    IF fault = "write" \/ ~ready
    THEN Outcome(store, ready, Undefined, "none", <<"DELETE">>, <<>>)
    ELSE Outcome(Remove(store, {k \in DOMAIN store : store[k].expiration < now}),
                 ready, Undefined, "none", <<"DELETE">>, <<>>)
SweepOn(fault) ==
    CASE backend = "Memory" -> MemorySweep(fault)
      [] backend = "Redis" -> RedisSweep(fault)
      [] OTHER -> DBSweep(fault)
Sweep ==
    /\ timer
    /\ \E k \in DOMAIN store : Expired(store[k])
    /\ \E fault \in {"none", "write"} :
          Do("sweep", <<>>, <<>>, 0, fault, SweepOn(fault))

(***************************************************************************)
(* The constructors: what each keeps of the options object it is given.    *)
(* The object is kept, not copied: its fields are filled in and, by        *)
(* Redis, removed in place.                                                *)
(***************************************************************************)
\* the Redis port when none is given
defaultPort == 6379
localhost == <<"l", "o", "c", "a", "l", "h", "o", "s", "t">>
scheme == <<"r", "e", "d", "i", "s", ":", "/", "/">>

\* options.field, undefined when the object has no such field
Field(o, f) == IF f \in DOMAIN o THEN o[f] ELSE Undefined
\* options.field ??= value
Default(o, f, value) ==
    IF Field(o, f).t \in {"undefined", "null"} THEN Put(o, f, value) ELSE o

MemoryNew(o) == Default(o, "stdTTL", JNum(defaultTTL))

DBNew(o) == Default(o, "stdTTL", JNum(defaultTTL))

\* host, port and stdTTL are filled in, the url is built from the
\* credentials, the host and the port, and username and password are deleted
RedisNew(o) ==
    LET filled == Default(Default(Default(o, "host", JStr(localhost)),
                                  "port", JNum(defaultPort)),
                          "stdTTL", JNum(defaultTTL))
        username == Field(filled, "username")
        password == Field(filled, "password")
        url == scheme
               \o (IF Truthy(username) THEN username.v ELSE <<>>)
               \o (IF Truthy(password)
                   THEN (IF Truthy(username) THEN <<":">> ELSE <<>>) \o password.v
                   ELSE <<>>)
               \o (IF Truthy(username) \/ Truthy(password) THEN <<"@">> ELSE <<>>)
               \o filled["host"].v \o <<":">> \o NumText(filled["port"].v)
    IN  Remove(Put(filled, "url", JStr(url)), {"username", "password"})

NewOn(b, o) ==
    CASE b = "Memory" -> MemoryNew(o)
      [] b = "Redis" -> RedisNew(o)
      [] OTHER -> DBNew(o)

Init ==
    /\ backend \in Backends
    /\ used \in Universes
    /\ now = 0
    /\ store = Empty
    /\ ready = (backend = "Memory")
    /\ last = Idle
    /\ calls = <<>>
    /\ emitted = <<>>
    /\ inflight = <<>>
    /\ options = NewOn(backend, Empty)
    /\ timer = TRUE

Next ==
    \/ Set \/ Get \/ Includes \/ Del \/ Clear \/ KeysOp
    \/ Mget \/ Mset \/ Take \/ List
    \/ Mdel \/ Ttl \/ GetTtl
    \/ Return \/ Tick \/ Sweep

Spec == Init /\ [][Next]_vars

(***************************************************************************)
(* Concurrent takes: the callers of one instance, each inside take(key),   *)
(* interleaved at the awaits.  Memory's take is one synchronous call of    *)
(* node-cache; Redis's and DB's are a get and a del, each a round trip to  *)
(* the server.                                                             *)
(***************************************************************************)
MaxCallers == 2
Callers == 1..MaxCallers

\* a caller's position inside take: pc, the key, and the value it will answer
At(pc, key, ret) == [pc |-> pc, key |-> key, ret |-> ret]

\* everything is as its constructor left it, and nobody has called yet
InitTake ==
    /\ backend \in Backends
    /\ used \in Universes
    /\ now = 0
    /\ store = Empty
    /\ ready = (backend = "Memory")
    /\ last = Idle
    /\ calls = <<>>
    /\ emitted = <<>>
    /\ inflight = [p \in Callers |-> At("idle", Undefined, Undefined)]
    /\ options = NewOn(backend, Empty)
    /\ timer = TRUE

\* one entry is stored before the takes begin
Stored ==
    /\ store = Empty
    /\ \A p \in Callers : inflight[p].pc = "idle"
    /\ \E key \in UsedKeys, value \in UsedValues :
          LET out == SetOn(key, value, defaultTTL, "none")
          IN  /\ out.err = "none"
              /\ store' = out.store
              /\ ready' = out.ready
    /\ UNCHANGED <<backend, used, now, last, calls, emitted, inflight, options, timer>>

\* take(key) is called: Memory's runs to its end, the others' reach the get
TakeCall ==
    \E p \in Callers, key \in UsedKeys :
        /\ inflight[p].pc = "idle"
        /\ IF backend = "Memory"
           THEN LET out == MemoryTake(key, "none")
                IN  /\ store' = out.store
                    /\ inflight' = [inflight EXCEPT ![p] = At("done", key, out.ret)]
           ELSE /\ store' = store
                /\ inflight' = [inflight EXCEPT ![p] = At("get", key, Undefined)]
        /\ UNCHANGED <<backend, used, now, ready, last, calls, emitted, options, timer>>

\* the get of take answers: Redis goes on to del when the value is truthy,
\* DB always (its value is a promise)
TakeGet ==
    \E p \in Callers :
        /\ inflight[p].pc = "get"
        /\ LET out == GetOn(inflight[p].key, "none")
               goes == out.err = "none" /\ (backend = "Database" \/ Truthy(out.ret))
           IN  /\ store' = out.store
               /\ ready' = out.ready
               /\ inflight' = [inflight EXCEPT ![p] =
                      At(IF goes THEN "del" ELSE "done", inflight[p].key,
                         IF goes THEN out.ret ELSE Undefined)]
        /\ UNCHANGED <<backend, used, now, last, calls, emitted, options, timer>>

\* the del of take answers, and take answers the value of its get
TakeDel ==
    \E p \in Callers :
        /\ inflight[p].pc = "del"
        /\ LET out == DelOn(inflight[p].key, "none")
           IN  /\ store' = out.store
               /\ ready' = out.ready
               /\ inflight' = [inflight EXCEPT ![p] =
                      At("done", inflight[p].key, inflight[p].ret)]
        /\ UNCHANGED <<backend, used, now, last, calls, emitted, options, timer>>

NextTake == Stored \/ TakeCall \/ TakeGet \/ TakeDel

SpecTake == InitTake /\ [][NextTake]_vars

(***************************************************************************)
(* What a caller would be answered now, the client working                 *)
(***************************************************************************)
GetNow(key) == GetOn(key, "none").ret
IncludesNow(key) == IncludesOn(key, "none").ret = JBool(TRUE)
KeysNow == KeysOn("none").ret
MgetNow(keys) == MgetOn(keys, "none").ret
DelNow(key) == DelOn(key, "none").ret

\* the entries of st that have not expired
Content(st) == [k \in LiveKeys(st) |-> st[k]]
\* the key of the last call
Key == last.keys[1]
Present(ret) == ret.t # "undefined"

(***************************************************************************)
(* The properties                                                          *)
(***************************************************************************)
\* C1: on every backend, after a set(key, value) that answered true, get(key)
\* made before the entry expires answers a value deep-equal to the value
\* set, whatever the key and the value (false, 0, "", null and nested
\* objects included).
C1_SetThenGet ==
    (last.op = "set" /\ last.ret = JBool(TRUE)) =>
        DeepEqual(GetNow(Key), last.values[1])

\* a falsy value was set through Redis and read back
C1_SetFalsyRead ==
    /\ backend = "Redis"
    /\ last.op = "set" /\ last.ret = JBool(TRUE)
    /\ last.values[1] = JStr(<<>>)
    /\ GetNow(Key) = JStr(<<>>)

\* C2: once the expiration of an entry has passed, no get, includes, mget,
\* keys or list answers it, on any backend, swept or not.
C2_NoExpiredRead ==
    LET answered ==
            CASE last.op = "get" /\ Present(last.ret) -> {Key}
              [] last.op = "includes" /\ last.ret = JBool(TRUE) -> {Key}
              [] last.op \in {"mget", "list"} /\ last.err = "none" ->
                    {e[1] : e \in last.ret.v}
              [] last.op = "keys" /\ last.err = "none" -> Range(last.ret.v)
              [] OTHER -> {}
    IN  \A key \in answered : stringify(key) \in LiveKeys(store)

\* after the last call (a take) its key is not included
TakenGone == ~IncludesNow(Key)

\* C3: take(key) of a present key, whatever its value (falsy included),
\* answers the stored value, and includes(key) is false afterwards.
C3_TakeReturnsStored ==
    [][(/\ last.op = "idle" /\ last'.op = "take" /\ last'.fault = "none"
        /\ stringify(last'.keys[1]) \in LiveKeys(store))
       => /\ DeepEqual(last'.ret, unstringify(store[stringify(last'.keys[1])].value))
          /\ TakenGone']_vars

\* C4: of the concurrent takes of a key that holds one stored value, at most
\* one answers the value, and after a take answered it the key is gone.
C4_TakeAtMostOnce ==
    \A p \in Callers :
        (inflight[p].pc = "done" /\ Present(inflight[p].ret)) =>
            /\ \A q \in Callers \ {p} :
                  ~(/\ inflight[q].pc = "done"
                    /\ inflight[q].key = inflight[p].key
                    /\ Present(inflight[q].ret))
            /\ ~IncludesNow(inflight[p].key)

\* C5: take(key) of an absent key answers absent and does nothing: no entry
\* is created, changed or deleted, no delete is issued to the client, and
\* no 'del' is emitted.
C5_TakeAbsentNoop ==
    [][(/\ last.op = "idle" /\ last'.op = "take" /\ last'.fault = "none"
        /\ last'.err = "none"
        /\ stringify(last'.keys[1]) \notin LiveKeys(store))
       => /\ last'.ret = Undefined
          /\ Content(store') = Content(store)
          /\ \A i \in 1..Len(calls') : calls'[i] \notin {"del", "DEL", "DELETE"}
          /\ \A i \in 1..Len(emitted') : emitted'[i].name # "del"]_vars

\* C6: in every reachable state of every backend, includes(key) is true
\* exactly when get(key) answers a value.
C6_IncludesIffGet ==
    \A key \in UsedKeys : IncludesNow(key) <=> Present(GetNow(key))

\* one key holds a falsy value and is included, another is held expired and
\* is not
C6_FalsyAndExpired ==
    \E key \in UsedKeys, other \in UsedKeys :
        /\ IncludesNow(key) /\ Present(GetNow(key)) /\ ~Truthy(GetNow(key))
        /\ stringify(other) \in DOMAIN store /\ ~IncludesNow(other)

\* after the last call (a del) get of its key answers absent and a second
\* del answers 0
DeletedGone == ~Present(GetNow(Key)) /\ DelNow(Key) = JNum(0)

\* C7: del(key) answers 1 exactly when includes(key) was true immediately
\* before it, 0 otherwise; after it get(key) answers absent and a second
\* del(key) answers 0.
C7_DelCountsPresent ==
    [][(/\ last.op = "idle" /\ last'.op = "del" /\ last'.fault = "none"
        /\ last'.err = "none")
       => /\ last'.ret = JNum(IF IncludesNow(last'.keys[1]) THEN 1 ELSE 0)
          /\ DeletedGone']_vars

\* C8: after a clear() that answered true, on every backend, keys() answers
\* the empty sequence and includes(key) is false for every key set before.
C8_ClearEmpties ==
    (last.op = "clear" /\ last.ret = JBool(TRUE)) =>
        /\ KeysNow = JArray(<<>>)
        /\ \A key \in UsedKeys : ~IncludesNow(key)

\* a relational clear of a cache that held two keys answered true
C8_ClearedTwo ==
    /\ backend = "Database"
    /\ last.op = "clear" /\ last.ret = JBool(TRUE)
    /\ Cardinality(last.before) = 2
    /\ KeysNow = JArray(<<>>)

\* the entries mset(keys, values) leaves: of equal keys the last counts
Written(keys, values) ==
    {<<keys[i], values[i]>> :
        i \in {x \in 1..Len(keys) : \A y \in (x + 1)..Len(keys) : keys[y] # keys[x]}}

\* C9: after an mset(keys, values) of lists of equal length that answered
\* true, every keys[i] is included and mget(keys) answers the mapping of
\* exactly keys[i] -> values[i] (of equal keys the last counts).
C9_MsetThenMget ==
    (last.op = "mset" /\ last.ret = JBool(TRUE)) =>
        /\ \A i \in 1..Len(last.keys) : IncludesNow(last.keys[i])
        /\ MgetNow(last.keys) = JMap(Written(last.keys, last.values))

\* two keys were written through the relational backend, one value falsy
C9_TwoWritten ==
    /\ backend = "Database"
    /\ last.op = "mset" /\ last.ret = JBool(TRUE)
    /\ Len(last.keys) = 2 /\ last.keys[1] # last.keys[2]
    /\ ~Truthy(last.values[2])
    /\ Cardinality(MgetNow(last.keys).v) = 2

\* C10: mget(keys), for every list of keys (empty, with duplicates, with
\* absent or expired keys), does not fail and answers exactly the listed
\* keys that are present, each with its stored value.
C10_MgetListed ==
    (/\ last.op = "mget" /\ last.fault = "none"
     /\ backend = "Database" => ~TooLong(Encode(last.keys)))
    => /\ last.err = "none"
       /\ last.ret = JMap({<<key, unstringify(store[stringify(key)].value)>> :
                              key \in {x \in Range(last.keys) :
                                          stringify(x) \in LiveKeys(store)}})

\* after the last call (an mdel) none of its keys is included
ListedGone == \A i \in 1..Len(last.keys) : ~IncludesNow(last.keys[i])

\* C11: on every backend mdel(keys) answers the number of listed keys that
\* were present (not expired) before the call, and afterwards every listed
\* key is absent.
C11_MdelCountsPresent ==
    [][(/\ last.op = "idle" /\ last'.op = "mdel" /\ last'.fault = "none"
        /\ last'.err = "none")
       => /\ last'.ret = JNum(Cardinality(Range(Encode(last'.keys)) \cap LiveKeys(store)))
          /\ ListedGone']_vars

\* C12: on every backend mset(keys, values) with lists of unequal lengths
\* fails (with the length-mismatch error when the client works) and writes
\* nothing: the entries, their values and their expirations are as before,
\* and no 'set' is emitted.
C12_MsetMismatchNoWrite ==
    [][(/\ last.op = "idle" /\ last'.op = "mset"
        /\ Len(last'.keys) # Len(last'.values))
       => /\ last'.err # "none"
          /\ last'.fault = "none" => last'.err = "LengthMismatch"
          /\ store' = store
          /\ \A i \in 1..Len(emitted') : emitted'[i].name # "set"]_vars

\* two keys with one value were refused by a cache that held an entry
C12_RefusedHolding ==
    /\ last.op = "mset" /\ last.err = "LengthMismatch"
    /\ Len(last.keys) = 2 /\ Len(last.values) = 1
    /\ last.before # {} /\ DOMAIN store = last.before
    /\ emitted = <<>>

\* C13: on every backend set(key, value) with a key whose encoded form is
\* longer than 255 fails with the key-size error before any call of the
\* client (no connect, no table creation, no write) and stores nothing.
C13_LongKeyRefused ==
    (/\ last.op = "set" /\ last.fault = "none"
     /\ Len(stringify(Key)) > MaxKeyLength)
    => /\ last.err = "KeySize"
       /\ calls = <<>>
       /\ stringify(Key) \notin DOMAIN store

GetTtlNow(key) == GetTtlOn(key, "none").ret

\* C14: on every backend, after set(key, value, t) with t > 0, getTtl(key)
\* made at once answers the seconds left, a number r with 0 < r <= t.
C14_GetTtlWithinTtl ==
    (last.op = "set" /\ last.ret = JBool(TRUE)) =>
        /\ GetTtlNow(Key).t = "number"
        /\ 0 < GetTtlNow(Key).v /\ GetTtlNow(Key).v <= last.ttl

\* C15: on every backend getTtl(key) answers absent when the key is missing
\* and when its entry has expired, swept or not: never a zero or negative
\* time left for an expired entry.
C15_GetTtlAbsent ==
    \A key \in UsedKeys :
        stringify(key) \notin LiveKeys(store) => GetTtlNow(key) = Undefined

\* after the last call its key is still absent
StillAbsent == ~Present(GetNow(Key))

\* C16: on every backend ttl(key, t) of a key that does not exist (never
\* set, deleted or expired) answers false and leaves it absent: a later
\* get(key) answers absent.
C16_TtlOfAbsent ==
    [][(/\ last.op = "idle" /\ last'.op = "ttl" /\ last'.fault = "none"
        /\ last'.err = "none"
        /\ stringify(last'.keys[1]) \notin LiveKeys(store))
       => /\ last'.ret = JBool(FALSE)
          /\ StillAbsent']_vars

\* the commands of the clients that write, delete, clear or refresh
WriteCalls ==
    {"SET", "MSET", "DEL", "FLUSHALL", "multiUpdate", "DELETE", "UPDATE",
     "truncate", "transaction"}
\* the client failed a writing command of the last call, or its EXPIRE
ClientFailed ==
    \/ last.fault = "write" /\ \E i \in 1..Len(calls) : calls[i] \in WriteCalls
    \/ last.fault = "expire" /\ \E i \in 1..Len(calls) : calls[i] = "EXPIRE"

\* C17: when the client fails during set, mset, del, mdel, clear or ttl, the
\* call does not throw: it answers false (0 for del and mdel), on every
\* backend whose client can fail.
C17_FailureIsFalse ==
    (/\ last.op \in {"set", "mset", "del", "mdel", "clear", "ttl"}
     /\ ClientFailed)
    => /\ last.err = "none"
       /\ last.ret = (IF last.op \in {"del", "mdel"} THEN JNum(0) ELSE JBool(FALSE))

\* C18: on the relational backend, when the enumeration query fails, keys()
\* answers an empty list and list() an empty map, and neither throws.
C18_EnumerationDegrades ==
    (/\ backend = "Database" /\ last.op \in {"keys", "list"}
     /\ last.fault = "read" /\ \E i \in 1..Len(calls) : calls[i] = "SELECT")
    => /\ last.err = "none"
       /\ last.ret = (IF last.op = "keys" THEN JArray(<<>>) ELSE JMap({}))

(***************************************************************************)
(* The lifecycle: connect() and disconnect() among the storage calls.      *)
(* Memory's ready is a flag beside node-cache, whose close() only stops    *)
(* its check timer; DB's ready tells that the table was created; Redis's   *)
(* is the isReady of its client, which refuses to open an open socket or   *)
(* to close a closed one.                                                  *)
(***************************************************************************)
MemoryConnect(fault) == Outcome(store, ready, Undefined, "none", <<>>, <<>>)
MemoryDisconnect(fault) == Outcome(store, FALSE, Undefined, "none", <<"close">>, <<>>)

RedisConnectCall(fault) ==
    IF ready \/ fault = "connect" THEN Throw("Client", ready, <<"connect">>)
    ELSE Outcome(store, TRUE, Undefined, "none", <<"connect">>, <<>>)
RedisDisconnect(fault) ==
    IF ~ready THEN Throw("Client", ready, <<"disconnect">>)
    ELSE Outcome(store, FALSE, Undefined, "none", <<"disconnect">>, <<>>)

DBConnect(fault) == Outcome(store, ready, Undefined, "none", <<>>, <<>>)
DBDisconnect(fault) == Outcome(store, ready, Undefined, "none", <<"close">>, <<>>)

ConnectOn(fault) ==
    CASE backend = "Memory" -> MemoryConnect(fault)
      [] backend = "Redis" -> RedisConnectCall(fault)
      [] OTHER -> DBConnect(fault)
DisconnectOn(fault) ==
    CASE backend = "Memory" -> MemoryDisconnect(fault)
      [] backend = "Redis" -> RedisDisconnect(fault)
      [] OTHER -> DBDisconnect(fault)

Connect ==
    \E fault \in May({}) :
        Do("connect", <<>>, <<>>, 0, fault, ConnectOn(fault))
Disconnect ==
    \E fault \in {"none"} :
        Do("disconnect", <<>>, <<>>, 0, fault, DisconnectOn(fault))

NextLife == Connect \/ Disconnect \/ Set \/ Get \/ Return

SpecLife == Init /\ [][NextLife]_vars

\* a storage call made now, the client working, would succeed
SetSucceeds(key, value) ==
    LET out == SetOn(key, value, defaultTTL, "none")
    IN  out.err = "none" /\ out.ret = JBool(TRUE)
GetSucceeds(key) == GetOn(key, "none").err = "none"

\* C19: after disconnect() has completed, isReady is false and no storage
\* call (set, get, ...) succeeds on the instance until it is connected
\* again.
C19_DisconnectedFailsSafe ==
    (last.op = "disconnect" /\ last.err = "none") =>
        /\ ~ready
        /\ \A key \in UsedKeys : ~GetSucceeds(key)
        /\ \A key \in UsedKeys, value \in UsedValues : ~SetSucceeds(key, value)

\* C20: on Memory isReady follows the lifecycle: it is false after every
\* disconnect() and true after every connect(), a first or a second in a
\* row alike (an instance is constructed ready), and neither touches the
\* entries.
C20_MemoryLifecycle ==
    backend = "Memory" =>
        /\ last.op = "disconnect" => ~ready
        /\ last.op = "connect" => ready
        /\ last.op \in {"connect", "disconnect"} => DOMAIN store = last.before

(***************************************************************************)
(* Notifications                                                           *)
(***************************************************************************)
\* the notifications of the last call that carry the name
Emitted(name) == {i \in 1..Len(emitted) : emitted[i].name = name}

\* the write a notification tells of is in the store the call left: the
\* entry of a 'set' is held with a value the call announced for its key, the
\* entry of a 'del' is gone, and after a 'flush' nothing is held
Reflected(e) ==
    CASE e.name = "set" ->
            /\ stringify(e.key) \in DOMAIN store
            /\ \E i \in Emitted("set") :
                  /\ stringify(emitted[i].key) = stringify(e.key)
                  /\ store[stringify(e.key)].value = stringify(emitted[i].value)
      [] e.name = "del" -> stringify(e.key) \notin DOMAIN store
      [] e.name = "flush" -> store = Empty
      [] OTHER -> TRUE

\* C21: a 'set', 'del' or 'flush' notification is emitted only once the write
\* it tells of has succeeded: the store the call leaves reflects it, and no
\* call whose write failed emits one.
C21_EmitAfterWrite ==
    \A i \in Emitted("set") \cup Emitted("del") \cup Emitted("flush") :
        /\ ~ClientFailed
        /\ last.err = "none"
        /\ Reflected(emitted[i])

\* an mset of two keys through the table told of both, and a set whose
\* upsert failed would tell of nothing
C21_ToldOfBoth ==
    /\ backend = "Database"
    /\ last.op = "mset" /\ last.ret = JBool(TRUE)
    /\ Cardinality(Emitted("set")) = 2
    /\ \A i \in Emitted("set") : Reflected(emitted[i])
    /\ SetOn(Key, last.values[1], 1, "write").events = <<>>

\* C22: on every backend a set or an mset that answered true emitted a 'set'
\* for each key it wrote, and a clear that answered true emitted one 'flush'.
C22_OneNotificationPerWrite ==
    /\ (last.op \in {"set", "mset"} /\ last.ret = JBool(TRUE)) =>
          \A k \in Range(Encode(last.keys)) :
              \E i \in Emitted("set") : stringify(emitted[i].key) = k
    /\ (last.op = "clear" /\ last.ret = JBool(TRUE)) => Cardinality(Emitted("flush")) = 1

\* the listed keys of the last call that it removed from the client
Removed == {k \in Range(Encode(last.keys)) : k \in last.before /\ k \notin DOMAIN store}

\* C23: a del or mdel that answered emitted a 'del' for a key exactly when
\* it removed an entry of that key (none for an absent key), and it emitted
\* as many 'del' as the count it answered.
C23_DelNotifiesRemoved ==
    (last.op \in {"del", "mdel"} /\ last.err = "none" /\ last.fault = "none") =>
        /\ {stringify(emitted[i].key) : i \in Emitted("del")} = Removed
        /\ JNum(Cardinality(Emitted("del"))) = last.ret

\* C24: in every reachable state every entry the backend holds has an
\* expiration.
C24_EveryEntryExpires ==
    \A k \in DOMAIN store : store[k].expiration # NoExpiry

\* the keys an array answered, encoded again
Listed(ret) == [i \in 1..Len(ret.v) |-> stringify(ret.v[i])]

\* C25: on every backend keys() answers exactly the keys whose includes is
\* true, each once; on the relational backend in the order of the encoded
\* keys.
C25_KeysAreIncluded ==
    (last.op = "keys" /\ last.err = "none" /\ last.fault = "none") =>
        LET listed == Listed(last.ret)
        IN  /\ Range(listed) = {stringify(k) : k \in {x \in UsedKeys : IncludesNow(x)}}
            /\ \A i, j \in 1..Len(listed) : i # j => listed[i] # listed[j]
            /\ backend = "Database" =>
                  \A i, j \in 1..Len(listed) : i < j => TextLess(listed[i], listed[j])

\* C27: two keys that are the same logical value encode to the same text and
\* address the same entry: after a set with one, get with the other answers
\* the value set.
C27_EqualKeysCollide ==
    (last.op = "set" /\ last.ret = JBool(TRUE)) =>
        \A other \in UsedKeys :
            DeepEqual(other, Key) =>
                /\ stringify(other) = stringify(Key)
                /\ DeepEqual(GetNow(other), last.values[1])

(***************************************************************************)
(* Construction and the default ttl: an instance is constructed over the   *)
(* options its caller gives, and set, mset and ttl are called with a ttl   *)
(* or without one.                                                         *)
(***************************************************************************)
Me == <<"m", "e">>
Pw == <<"p", "w">>

\* an options object with the field or without it
Pick(f, values) == {Empty} \cup {Put(Empty, f, v) : v \in values}
Merge(a, b) == [x \in (DOMAIN a) \cup (DOMAIN b) |-> IF x \in DOMAIN a THEN a[x] ELSE b[x]]
\* the options a caller gives: a stdTTL or none, and for Redis a username
\* and a password or none
GivenOptions(b) ==
    IF b = "Redis"
    THEN {Merge(Merge(t, u), p) :
             t \in Pick("stdTTL", {JNum(ttl) : ttl \in TTLs}),
             u \in Pick("username", {JStr(Me)}),
             p \in Pick("password", {JStr(Pw)})}
    ELSE Pick("stdTTL", {JNum(ttl) : ttl \in TTLs})

\* nothing is constructed yet: the options are those of the caller
Given == [Idle EXCEPT !.op = "given"]

InitNew ==
    /\ backend \in Backends
    /\ used \in {u \in Universes : u.falsy = JNull}
    /\ now = 0
    /\ store = Empty
    /\ ready = FALSE
    /\ last = Given
    /\ calls = <<>>
    /\ emitted = <<>>
    /\ inflight = <<>>
    /\ options \in GivenOptions(backend)
    /\ timer = TRUE

\* new Memory(options), new Redis(options), new DB(options); the call keeps
\* the credentials it was given
New ==
    /\ last.op = "given"
    /\ options' = NewOn(backend, options)
    /\ ready' = (backend = "Memory")
    /\ last' = [Idle EXCEPT !.op = "new",
                            !.values = <<Field(options, "username"),
                                         Field(options, "password")>>,
                            !.ttl = IF "stdTTL" \in DOMAIN options
                                    THEN options["stdTTL"].v ELSE 0]
    /\ UNCHANGED <<backend, used, now, store, calls, emitted, inflight, timer>>

\* a ttl that falls back to the class's default, whatever was configured
ResolveClassDefault(ttl) ==
    IF ttl # 0 THEN ttl ELSE defaultTTL

\* ttl = this.options.stdTTL ?? this.defaultTTL: the ttl of a call, 0
\* standing for an argument left out
Resolve(ttl) ==
    IF ttl # 0 THEN ttl
    ELSE IF Field(options, "stdTTL").t \in {"undefined", "null"} THEN defaultTTL
    ELSE options["stdTTL"].v

Args == TTLs \cup {0}

SetArg ==
    \E key \in UsedKeys, value \in UsedValues, ttl \in Args, fault \in May({}) :
        Do("set", <<key>>, <<value>>, ttl, fault, SetOn(key, value, Resolve(ttl), fault))
MsetArg ==
    \E key \in UsedKeys, value \in UsedValues, ttl \in Args, fault \in May({}) :
        Do("mset", <<key>>, <<value>>, ttl, fault,
           MsetOn(<<key>>, <<value>>, Resolve(ttl), fault))
TtlArg ==
    \E key \in UsedKeys, ttl \in Args, fault \in May({}) :
        Do("ttl", <<key>>, <<>>, ttl, fault, TtlOn(key, Resolve(ttl), fault))

NextNew == New \/ SetArg \/ MsetArg \/ TtlArg \/ Return \/ Tick

SpecNew == InitNew /\ [][NextNew]_vars

\* the ttl a call is to use: its argument, else the stdTTL the options hold
Effective(call) ==
    IF call.ttl # 0 THEN call.ttl ELSE Field(options, "stdTTL").v

Contains(text, part) ==
    \E i \in 1..Len(text) :
        /\ i + Len(part) - 1 <= Len(text)
        /\ SubSeq(text, i, i + Len(part) - 1) = part

\* C29: once a Redis instance is constructed, no field of the options
\* object it retains holds the username or the password it was given.
C29_CredentialsStripped ==
    (backend = "Redis" /\ last.op = "new") =>
        \A f \in DOMAIN options, i \in 1..Len(last.values) :
            (Truthy(last.values[i]) /\ options[f].t = "string") =>
                ~Contains(options[f].v, last.values[i].v)

(***************************************************************************)
(* Bulk calls among other callers: an mset or a list of one caller, with   *)
(* the sets and dels of the others between its awaits.  Memory's and DB's  *)
(* mset and DB's list are one call of node-cache or one statement; Redis's *)
(* mset is MSET and then one EXPIRE per key, and Memory's and Redis's list *)
(* is keys() and then mget().  One bulk call is in progress at a time.     *)
(***************************************************************************)
\* a caller's position inside a bulk call: what it was called with, what
\* each EXPIRE did, what it will answer, and the contents the client held
\* since the call began
Job(pc, keys, values, done, ret, seen) ==
    [pc |-> pc, keys |-> keys, values |-> values, done |-> done, ret |-> ret,
     seen |-> seen]
Free == Job("free", <<>>, <<>>, <<>>, Undefined, {})

\* the live entries of the client, as the entries of the Map list answers
Pairs(st) == {<<unstringify(k), unstringify(st[k].value)>> : k \in LiveKeys(st)}

\* every list in progress has seen the content the client holds now
Saw(jobs, st) ==
    [p \in DOMAIN jobs |->
        IF jobs[p].pc = "mget" THEN [jobs[p] EXCEPT !.seen = @ \cup {Pairs(st)}]
        ELSE jobs[p]]

InitBulk ==
    /\ backend \in Backends
    /\ used \in {u \in Universes : u.keys = "objects" /\ u.falsy = JNull}
    /\ now = 0
    /\ store = Empty
    /\ ready = (backend = "Memory")
    /\ last = Idle
    /\ calls = <<>>
    /\ emitted = <<>>
    /\ inflight = [p \in Callers |-> Free]
    /\ options = NewOn(backend, Empty)
    /\ timer = TRUE

\* a caller that is in no bulk call sets or deletes one key
SetBy ==
    \E key \in UsedKeys, value \in UsedValues :
        /\ \E p \in Callers : inflight[p].pc = "free"
        /\ LET out == SetOn(key, value, Resolve(0), "none")
           IN  /\ out.err = "none"
               /\ store' = out.store
               /\ ready' = out.ready
               /\ inflight' = Saw(inflight, out.store)
        /\ UNCHANGED <<backend, used, now, last, calls, emitted, options, timer>>
DelBy ==
    \E key \in UsedKeys :
        /\ \E p \in Callers : inflight[p].pc = "free"
        /\ LET out == DelOn(key, "none")
           IN  /\ out.err = "none"
               /\ store' = out.store
               /\ ready' = out.ready
               /\ inflight' = Saw(inflight, out.store)
        /\ UNCHANGED <<backend, used, now, last, calls, emitted, options, timer>>

\* mset(keys, values) is called: Memory's and DB's run to their end, Redis's
\* sends MSET, which stores the entries without expiration
MsetCall ==
    \E p \in Callers, keys \in Lists(UsedKeys) \ {<<>>}, values \in Lists(UsedValues) :
        /\ \A q \in Callers : inflight[q].pc = "free"
        /\ Len(keys) = Len(values)
        /\ IF backend = "Redis"
           THEN /\ store' = PutAll(store, Encode(keys), Encode(values), NoExpiry, 1)
                /\ ready' = TRUE
                /\ inflight' = Saw([inflight EXCEPT ![p] =
                                       Job("expire", keys, values, <<>>, Undefined, {})],
                                   store')
           ELSE LET out == MsetOn(keys, values, Resolve(0), "none")
                IN  /\ out.err = "none"
                    /\ store' = out.store
                    /\ ready' = out.ready
                    /\ inflight' = Saw([inflight EXCEPT ![p] =
                                           Job("set", keys, values, <<>>, out.ret, {})],
                                       store')
        /\ UNCHANGED <<backend, used, now, last, calls, emitted, options, timer>>

\* the next EXPIRE of a Redis mset reaches the server: what ttl() said of
\* it, and whether it put an expiration on an entry; after the last one
\* mset answers whether every ttl() said true
MsetExpire ==
    \E p \in Callers, fault \in {"none", "expire"} :
        /\ inflight[p].pc = "expire"
        /\ LET job == inflight[p]
               key == job.keys[Len(job.done) + 1]
               out == RedisTtl(key, Resolve(0), fault)
               done == Append(job.done,
                          [said |-> out.ret.v,
                           applied |-> fault = "none" /\ stringify(key) \in LiveKeys(store)])
               trues == {i \in 1..Len(done) : done[i].said}
           IN  /\ store' = out.store
               /\ ready' = out.ready
               /\ inflight' = Saw([inflight EXCEPT ![p] =
                      IF Len(done) = Len(job.keys)
                      THEN Job("set", job.keys, job.values, done,
                               JBool(Cardinality(trues) = Len(job.keys)), {})
                      ELSE Job("expire", job.keys, job.values, done, Undefined, {})],
                      out.store)
        /\ UNCHANGED <<backend, used, now, last, calls, emitted, options, timer>>

\* list() is called: DB's is one statement and runs to its end; Memory's
\* and Redis's await keys() and keep the keys it answers
ListCall ==
    \E p \in Callers :
        /\ \A q \in Callers : inflight[q].pc = "free"
        /\ IF backend = "Database"
           THEN LET out == ListOn("none")
                IN  /\ out.err = "none"
                    /\ store' = out.store
                    /\ ready' = out.ready
                    /\ inflight' = [inflight EXCEPT ![p] =
                           Job("listed", <<>>, <<>>, <<>>, out.ret, {Pairs(out.store)})]
           ELSE LET out == KeysOn("none")
                IN  /\ out.err = "none"
                    /\ store' = out.store
                    /\ ready' = out.ready
                    /\ inflight' = [inflight EXCEPT ![p] =
                           Job("mget", out.ret.v, <<>>, <<>>, Undefined,
                               {Pairs(out.store)})]
        /\ UNCHANGED <<backend, used, now, last, calls, emitted, options, timer>>

\* the list goes on after its await: mget of the keys it kept (an error of
\* the Redis server when there is none), and list answers the Map of it
ListMget ==
    \E p \in Callers :
        /\ inflight[p].pc = "mget"
        /\ LET job == inflight[p]
               out == MgetOn(job.keys, "none")
           IN  /\ store' = out.store
               /\ ready' = out.ready
               /\ inflight' = [inflight EXCEPT ![p] =
                      Job(IF out.err = "none" THEN "listed" ELSE "threw",
                          job.keys, <<>>, <<>>, out.ret, job.seen \cup {Pairs(out.store)})]
        /\ UNCHANGED <<backend, used, now, last, calls, emitted, options, timer>>

\* the caller takes the answer of its bulk call
Leave ==
    \E p \in Callers :
        /\ inflight[p].pc \in {"set", "listed", "threw"}
        /\ inflight' = [inflight EXCEPT ![p] = Free]
        /\ UNCHANGED <<backend, used, now, store, ready, last, calls, emitted, options, timer>>

NextBulk == SetBy \/ DelBy \/ MsetCall \/ MsetExpire \/ ListCall \/ ListMget \/ Leave

SpecBulk == InitBulk /\ [][NextBulk]_vars

\* C26: the Map list() answers is the set of the live pairs the backend held
\* at one instant during the call, whatever the other callers did meanwhile.
C26_ListIsSnapshot ==
    \A p \in Callers :
        inflight[p].pc = "listed" =>
            \E pairs \in inflight[p].seen : inflight[p].ret = JMap(pairs)

\* C30: a Redis mset answers true only if every one of its ttl assignments
\* took effect on its entry.
C30_MsetTrueMeansAllExpire ==
    \A p \in Callers :
        (backend = "Redis" /\ inflight[p].pc = "set" /\ inflight[p].ret = JBool(TRUE)) =>
            \A i \in 1..Len(inflight[p].done) : inflight[p].done[i].applied


(***************************************************************************)
(* The frame of the reads and of the single-key writes                     *)
(***************************************************************************)
Reads == {"get", "includes", "mget", "keys", "list", "getTtl"}

\* C38: on every backend a call of get, includes, mget, keys, list or getTtl
\* that answers leaves the logical content as it was (the keys that have not
\* expired, their values and their expirations) and emits no 'set', 'del'
\* or 'flush' notification
C38_ReadsChangeNothing ==
    [][(last.op = "idle" /\ last'.op \in Reads /\ last'.err = "none")
       => /\ Content(store') = Content(store)
          /\ \A i \in 1..Len(emitted') :
                emitted'[i].name \notin {"set", "del", "flush"}]_vars


SingleKeyWrites == {"set", "del", "take", "ttl"}

\* C39: on every backend a call of set(k), del(k), take(k) or ttl(k), whatever
\* it answers, leaves every entry held under another key as it was (held or
\* not, its value and its expiration), and a ttl(k, t) on a key that is held
\* and has not expired leaves k held with the value it had
C39_OnlyItsOwnKey ==
    [][(last.op = "idle" /\ last'.op \in SingleKeyWrites)
       => LET k == stringify(last'.keys[1])
          IN  /\ \A other \in (DOMAIN store \cup DOMAIN store') \ {k} :
                    /\ other \in DOMAIN store
                    /\ other \in DOMAIN store'
                    /\ store'[other] = store[other]
              /\ (last'.op = "ttl" /\ k \in LiveKeys(store))
                    => /\ k \in DOMAIN store'
                       /\ store'[k].value = store[k].value]_vars

\* a ttl(k, t) that answered true moved k's expiration while another key was
\* held
C39_TtlBesideAnother ==
    /\ last.op = "ttl"
    /\ last.ret = JBool(TRUE)
    /\ stringify(last.keys[1]) \in DOMAIN store
    /\ store[stringify(last.keys[1])].expiration = now + last.ttl
    /\ now > 0
    /\ DOMAIN store \ {stringify(last.keys[1])} # {}


(***************************************************************************)
(* The relational backend: the table, the sweep and the rows               *)
(***************************************************************************)
\* the statements a contract operation issues against the cache table
Statements == {"SELECT", "multiUpdate", "DELETE", "UPDATE", "truncate", "transaction"}
Issued(cs) == {i \in 1..Len(cs) : cs[i] \in Statements}
Operations ==
    {"set", "get", "includes", "del", "clear", "keys", "mget", "mset", "take",
     "list", "mdel", "ttl", "getTtl"}

\* C32: on the relational backend ready is false after construction and
\* becomes true only in a call whose createTable returned; an operation of the
\* contract called while ready is false issues createTable first and issues a
\* statement against the table only when createTable succeeded
C32_TableBeforeStatements ==
    /\ (backend = "Database" => ~ready)
    /\ [][(backend = "Database" /\ last.op = "idle" /\ last'.op \in Operations)
          => /\ (~ready /\ ready')
                  => /\ calls' # <<>>
                     /\ calls'[1] = "createTable"
                     /\ last'.fault # "connect"
             /\ (~ready /\ Issued(calls') # {})
                  => /\ calls'[1] = "createTable"
                     /\ last'.fault # "connect"
                     /\ ready'
                     /\ \A i \in Issued(calls') : i > 1
             /\ ready => ready']_vars

\* the first call of the contract created the table and then read it
C32_CreatedThenRead ==
    /\ backend = "Database"
    /\ last.op = "getTtl"
    /\ calls = <<"createTable", "SELECT">>
    /\ ready


(***************************************************************************)
(* The relational backend on its own: its calls, its clock and its check   *)
(* timer, which ticks whether or not a row has expired, whether or not the *)
(* table exists, and whether or not disconnect was called.                 *)
(***************************************************************************)
InitDB ==
    /\ Init
    /\ backend = "Database"

\* the checkTimer ticks: its DELETE runs, fails, or meets no table
TimerTick ==
    /\ timer
    /\ \E fault \in {"none", "write"} :
          Do("sweep", <<>>, <<>>, 0, fault, SweepOn(fault))

NextDB == Set \/ Mset \/ Get \/ Tick \/ TimerTick \/ Disconnect \/ Return

SpecDB == InitDB /\ [][NextDB]_vars

\* C33: a tick of the relational sweep removes only rows whose expiration is
\* strictly before now, none of which a get at the same instant would return,
\* and leaves every other row as it was; a tick whose DELETE fails, or that
\* comes before the table exists, changes nothing; no tick raises an error
C33_SweepSparesReadable ==
    [][(backend = "Database" /\ last.op = "idle" /\ last'.op = "sweep")
       => /\ last'.err = "none"
          /\ ready' = ready
          /\ \A k \in DOMAIN store \ DOMAIN store' :
                /\ store[k].expiration < now
                /\ DBSelect(store, k) = <<>>
          /\ \A k \in DOMAIN store' : k \in DOMAIN store /\ store'[k] = store[k]
          /\ (last'.fault = "write" \/ ~ready) => store' = store]_vars

\* a tick removed an expired row and spared one that expires at this very
\* second
C33_SweptBesideBoundary ==
    /\ backend = "Database"
    /\ last.op = "sweep"
    /\ last.before \ DOMAIN store # {}
    /\ \E k \in DOMAIN store : store[k].expiration = now

\* C35: on the relational backend, once disconnect() has answered, the check
\* timer is halted, so that no further DELETE is issued by the sweep
C35_DisconnectHaltsTimer ==
    (backend = "Database" /\ last.op = "disconnect" /\ last.err = "none") => ~timer


\* the last position of an encoded key in a list of encoded keys
LastAt(_keys, k) ==
    CHOOSE i \in 1..Len(_keys) :
        _keys[i] = k /\ \A j \in (i + 1)..Len(_keys) : _keys[j] # k

\* C36: on the relational backend a set or mset that answers true leaves, for
\* each encoded key it lists, the one row of that key with the value listed
\* last for it and the expiration now + ttl, in place of any row the key had,
\* and every other row as it was; a set or mset that does not answer true
\* leaves the table as it was
C36_UpsertKeepsLatest ==
    [][(backend = "Database" /\ last.op = "idle" /\ last'.op \in {"set", "mset"})
       => LET _keys == Encode(last'.keys)
              _values == Encode(last'.values)
              listed == {_keys[i] : i \in 1..Len(_keys)}
          IN  IF last'.err = "none" /\ last'.ret = JBool(TRUE)
              THEN /\ DOMAIN store' = DOMAIN store \cup listed
                   /\ \A k \in listed :
                         store'[k] = Row(_values[LastAt(_keys, k)], now + last'.ttl)
                   /\ \A k \in DOMAIN store \ listed : store'[k] = store[k]
              ELSE store' = store]_vars

\* a set answered true for a key that held an older row: the row now carries
\* the new value and the new expiration
C36_RowReplaced ==
    /\ backend = "Database"
    /\ last.op = "set"
    /\ last.ret = JBool(TRUE)
    /\ stringify(last.keys[1]) \in last.before
    /\ now > 0
    /\ store[stringify(last.keys[1])] = Row(stringify(last.values[1]), now + last.ttl)


(***************************************************************************)
(* The relational sweep under fairness: the check timer is a repeating     *)
(* timer, so a tick whose DELETE succeeds keeps coming for as long as the  *)
(* store is reachable, and a call that has answered is returned from.      *)
(***************************************************************************)
\* a tick whose DELETE succeeded
Swept ==
    /\ timer
    /\ Do("sweep", <<>>, <<>>, 0, "none", SweepOn("none"))

NextSweep == Set \/ Ttl \/ Tick \/ TimerTick \/ Return

SpecSweep ==
    /\ InitDB
    /\ [][NextSweep]_vars
    /\ WF_vars(Return)
    /\ SF_vars(Swept)

\* the encoded keys a row can be held under
Rows == {stringify(KeyAB), stringify(KeyBA), stringify(KeyK)}

\* C34: on the relational backend, while the timer keeps ticking with a
\* DELETE that succeeds, every row whose expiration has passed is eventually
\* no longer held as an expired row: the sweep deletes it physically (unless a
\* set or ttl gave the key a new expiration first)
C34_ExpiredRowsGetSwept ==
    \A k \in Rows :
        (k \in DOMAIN store /\ Expired(store[k]))
            ~> (k \notin DOMAIN store \/ ~Expired(store[k]))

\* a tick deleted a row whose expiration had passed
C34_ExpiredRowSwept ==
    /\ backend = "Database"
    /\ last.op = "sweep"
    /\ last.fault = "none"
    /\ \E k \in last.before : k \notin DOMAIN store


(***************************************************************************)
(* The relational take, query by query.  take calls get without awaiting   *)
(* it and goes straight on to del, which awaits a get of its own before    *)
(* its DELETE: the SELECT of the first get and the SELECT of del's get are *)
(* in flight together, and the client completes them in an order of its    *)
(* own (one connection answers in the order sent, a pool need not).        *)
(***************************************************************************)
\* the take in flight: where del is, the key, whether the SELECT of the
\* first get has run and the rows it found, the rows del's get found, and
\* the rows the DELETE met
Flight(pc, key, read, first, second, held) ==
    [pc |-> pc, key |-> key, read |-> read, first |-> first, second |-> second,
     held |-> held]
Landed == Flight("none", Undefined, FALSE, <<>>, <<>>, <<>>)

InitRace ==
    /\ backend = "Database"
    /\ used \in Universes
    /\ now = 0
    /\ store = Empty
    /\ ready = FALSE
    /\ last = Idle
    /\ calls = <<>>
    /\ emitted = <<>>
    /\ inflight = Landed
    /\ options = NewOn(backend, Empty)
    /\ timer = TRUE

\* the calls and the clock while no take is in flight
Store == inflight.pc = "none" /\ Set
Advance == inflight.pc = "none" /\ Tick

\* take(key): both gets pass checkReady and the key-size check and send
\* their SELECT
TakeOpen ==
    \E key \in UsedKeys :
        /\ last.op = "idle"
        /\ inflight.pc = "none"
        /\ Len(stringify(key)) <= MaxKeyLength
        /\ ready' = checkReady("none").ready
        /\ inflight' = Flight("selects", key, FALSE, <<>>, <<>>, <<>>)
        /\ UNCHANGED <<backend, used, now, store, last, calls, emitted, options, timer>>

\* the SELECT of the first get runs: its rows are what take will answer
TakeFirst ==
    /\ inflight.pc \in {"selects", "delete", "deleted"}
    /\ ~inflight.read
    /\ inflight' = [inflight EXCEPT !.read = TRUE,
                                    !.first = DBSelect(store, stringify(inflight.key))]
    /\ UNCHANGED <<backend, used, now, store, ready, last, calls, emitted, options, timer>>

\* the SELECT of del's get runs: del goes on to its DELETE
TakeSecond ==
    /\ inflight.pc = "selects"
    /\ inflight' = [inflight EXCEPT !.pc = "delete",
                                    !.second = DBSelect(store, stringify(inflight.key))]
    /\ UNCHANGED <<backend, used, now, store, ready, last, calls, emitted, options, timer>>

\* DELETE ... WHERE key = ? runs, and del emits 'del' with what its get found
TakeDelete ==
    /\ inflight.pc = "delete"
    /\ store' = Remove(store, {stringify(inflight.key)})
    /\ emitted' = <<Event("del", inflight.key,
                           IF Len(inflight.second) > 0
                           THEN unstringify(inflight.second[1].value) ELSE Undefined)>>
    /\ inflight' = [inflight EXCEPT !.pc = "deleted",
                                    !.held = DBSelect(store, stringify(inflight.key))]
    /\ UNCHANGED <<backend, used, now, ready, last, calls, options, timer>>

\* del has answered and the first get has resolved: take answers its value
TakeClose ==
    /\ last.op = "idle"
    /\ inflight.pc = "deleted"
    /\ inflight.read
    /\ last' = [Idle EXCEPT !.op = "take", !.keys = <<inflight.key>>,
                            !.ret = IF Len(inflight.first) > 0
                                    THEN unstringify(inflight.first[1].value)
                                    ELSE Undefined]
    /\ calls' = <<"SELECT", "SELECT", "DELETE">>
    /\ inflight' = Landed
    /\ UNCHANGED <<backend, used, now, store, ready, emitted, options, timer>>

NextRace ==
    \/ Store \/ Advance \/ Return
    \/ TakeOpen \/ TakeFirst \/ TakeSecond \/ TakeDelete \/ TakeClose

SpecRace == InitRace /\ [][NextRace]_vars

\* C37: in the relational take, whatever the order in which the client
\* completes the queries in flight, the SELECT whose rows take answers has run
\* before the DELETE runs, so a take whose DELETE removed a live row answers
\* that row's value
C37_ReadBeforeDelete ==
    inflight.pc = "deleted"
        => /\ inflight.read
           /\ inflight.held # <<>> => inflight.first # <<>>


(***************************************************************************)
(* Redis: operations started together on a client that is not ready.  Each *)
(* operation tests client.isReady and, when it is false, awaits            *)
(* client.connect(); isReady turns true only when the connection is up,    *)
(* and the client refuses a connect() while its socket is already open.    *)
(***************************************************************************)
\* an operation in flight: where it is, what it was asked, and its outcome
Asked(pc, op, key, value, ret, err) ==
    [pc |-> pc, op |-> op, key |-> key, value |-> value, ret |-> ret, err |-> err]
Waiting == Asked("idle", "none", Undefined, Undefined, Undefined, "none")

\* a connect() is in flight: the socket is open and the client not yet ready
Opening == \E p \in Callers : inflight[p].pc = "connecting"

InitJoin ==
    /\ backend = "Redis"
    /\ used \in Universes
    /\ now = 0
    /\ store = Empty
    /\ ready = FALSE
    /\ last = Idle
    /\ calls = <<>>
    /\ emitted = <<>>
    /\ inflight = [p \in Callers |-> Waiting]
    /\ options = NewOn(backend, Empty)
    /\ timer = TRUE

\* set(key, value) or get(key) is called: if (!this.client.isReady) await
\* this.connect(); a connect() on a socket that is already open throws
Begin ==
    \E p \in Callers, op \in {"set", "get"}, key \in UsedKeys, value \in UsedValues :
        /\ inflight[p].pc = "idle"
        /\ op = "get" => value = Obj
        /\ inflight' = [inflight EXCEPT ![p] =
              IF ready THEN Asked("command", op, key, value, Undefined, "none")
              ELSE IF Opening
              THEN Asked("failed", op, key, value, Undefined, "SocketOpen")
              ELSE Asked("connecting", op, key, value, Undefined, "none")]
        /\ calls' = IF ready THEN <<>> ELSE <<"connect">>
        /\ UNCHANGED <<backend, used, now, store, ready, last, emitted, options, timer>>

\* the connect() in flight answers: the client is ready, or the connection
\* failed and the socket is closed again
Connected ==
    \E p \in Callers, fault \in {"none", "connect"} :
        /\ inflight[p].pc = "connecting"
        /\ ready' = (fault = "none")
        /\ inflight' = [inflight EXCEPT ![p] =
              IF fault = "none" THEN [@ EXCEPT !.pc = "command"]
              ELSE [@ EXCEPT !.pc = "failed", !.err = "Client"]]
        /\ calls' = <<>>
        /\ UNCHANGED <<backend, used, now, store, last, emitted, options, timer>>

\* the command of the operation runs on the server
Command ==
    \E p \in Callers :
        /\ inflight[p].pc = "command"
        /\ LET out == IF inflight[p].op = "set"
                      THEN RedisSet(inflight[p].key, inflight[p].value, defaultTTL, "none")
                      ELSE RedisGet(inflight[p].key, "none")
           IN  /\ store' = out.store
               /\ ready' = out.ready
               /\ calls' = out.calls
               /\ inflight' = [inflight EXCEPT ![p] =
                      [@ EXCEPT !.pc = "done", !.ret = out.ret, !.err = out.err]]
        /\ UNCHANGED <<backend, used, now, last, emitted, options, timer>>

\* the caller takes the answer or the error
Finish ==
    \E p \in Callers :
        /\ inflight[p].pc \in {"done", "failed"}
        /\ inflight' = [inflight EXCEPT ![p] = Waiting]
        /\ calls' = <<>>
        /\ UNCHANGED <<backend, used, now, store, ready, last, emitted, options, timer>>

NextJoin == Begin \/ Connected \/ Command \/ Finish

SpecJoin == InitJoin /\ [][NextJoin]_vars

\* C31: on Redis, when operations start together while the client is not
\* ready, none of them fails because of the connect() of another: no
\* operation calls connect() while a connect() started by another operation
\* is still in flight
C31_ConnectNotRepeated ==
    \A p \in Callers : inflight[p].err # "SocketOpen"

====
